---- MODULE Spec2Model ----
(***************************************************************************)
(* Document ingestion (DocumentService) and chat orchestration             *)
(* (ChatService) of the RAG backend, as state machines over the rows of   *)
(* the documents, embeddings, chats and chat_messages tables.              *)
(*                                                                         *)
(* Texts are sequences of one-character strings.  Every awaited call is   *)
(* one step.  Inside a try block a call to a gateway or to object storage *)
(* and a read or write of the store either answers or rejects; a request  *)
(* fails at most once, so the code that handles the failure runs through. *)
(* The lookup that opens an operation (findOne, findByPk) answers.         *)
(* run[p].log and run[p].failedAt record the steps a request has taken    *)
(* and the step whose rejection was caught.                               *)
(***************************************************************************)
EXTENDS Integers, Sequences, FiniteSets, TLC

VARIABLES
  text,          \* chunker: the extracted text handed to splitTextIntoPages
  totalPages,    \* chunker: the page count handed to splitTextIntoPages
  pages,         \* chunker: the returned array of page texts
  splitDone      \* chunker: TRUE once splitTextIntoPages has returned

splitVars == <<text, totalPages, pages, splitDone>>

VARIABLES
  documents,     \* documents table: id -> row
  nextDocId,     \* documents.id auto-increment sequence
  embeddings,    \* embeddings table: rows in insertion order
  s3Objects,     \* object storage: the keys that have a backing object
  run            \* per request: the locals and position of one processDocument call

ingestVars == <<documents, nextDocId, embeddings, s3Objects, run>>

VARIABLES
  chats,         \* chats table: id -> row
  messages,      \* chat_messages table: rows in creation order
  call           \* per request: the locals and position of one ChatService call

chatVars == <<chats, messages, call>>

VARIABLES
  del            \* per request: the locals and position of one deleteDocument call

deleteVars == <<del>>

VARIABLES
  search         \* the locals and position of one searchSimilarEmbeddings call

searchVars == <<search>>

VARIABLES
  blacklistedTokens,  \* TokenBlacklistService.blacklistedTokens: token -> expiresAt
  now,                \* the clock read by new Date(), in ticks
  auth                \* the last call of the token services and what was added

authVars == <<blacklistedTokens, now, auth>>

vars == <<splitVars, ingestVars, chatVars, deleteVars, searchVars, authVars>>

(***************************************************************************)
(* Bounds                                                                  *)
(***************************************************************************)
MaxLen == 20        \* longest text handed to the chunker
MaxDots == 2        \* most sentence terminators in such a text
MaxPages == 3       \* largest page count

(***************************************************************************)
(* String helpers (JavaScript semantics, 0-based indices)                  *)
(***************************************************************************)
Min(a, b) == IF a < b THEN a ELSE b

\* Math.ceil(a / b) for a >= 0, b > 0
CeilDiv(a, b) == (a + b - 1) \div b

\* s.substring(from, to) with 0 <= from <= to <= s.length
Substring(s, from, to) == SubSeq(s, from + 1, to)

\* s.lastIndexOf(c): 0-based index of the last c, -1 when there is none
LastIndexOf(s, c) ==
  LET hits == {k \in 1..Len(s) : s[k] = c}
  IN  IF hits = {} THEN -1
      ELSE (CHOOSE k \in hits : \A j \in hits : j <= k) - 1

\* BeyondSeventyPercent that also holds at exactly 70%
BeyondSeventyPercent_AtOrBeyond(lastSentenceEnd, avgCharsPerPage) ==
  10 * lastSentenceEnd >= 7 * avgCharsPerPage

\* lastSentenceEnd > avgCharsPerPage * 0.7
BeyondSeventyPercent(lastSentenceEnd, avgCharsPerPage) ==
  10 * lastSentenceEnd > 7 * avgCharsPerPage

(***************************************************************************)
(* DocumentService.splitTextIntoPages                                      *)
(***************************************************************************)
RECURSIVE SplitLoop(_, _, _, _, _, _)
SplitLoop(txt, n, avgCharsPerPage, i, currentPosition, acc) ==
  IF i >= n THEN acc
  ELSE
    LET endPosition == Min(currentPosition + avgCharsPerPage, Len(txt))
        pageText == Substring(txt, currentPosition, endPosition)
        lastSentenceEnd == LastIndexOf(pageText, ".")
        snap == /\ i < n - 1
                /\ endPosition < Len(txt)
                /\ BeyondSeventyPercent(lastSentenceEnd, avgCharsPerPage)
    IN  IF snap
        THEN SplitLoop(txt, n, avgCharsPerPage, i + 1,
                       currentPosition + lastSentenceEnd + 1,
                       Append(acc, Substring(pageText, 0, lastSentenceEnd + 1)))
        ELSE SplitLoop(txt, n, avgCharsPerPage, i + 1, endPosition,
                       Append(acc, pageText))

splitTextIntoPages(txt, n) ==
  IF n <= 1 THEN <<txt>>
  ELSE SplitLoop(txt, n, CeilDiv(Len(txt), n), 0, 0, <<>>)

\* in-order concatenation of an array of texts
RECURSIVE Concat(_)
Concat(ps) == IF ps = <<>> THEN <<>> ELSE Head(ps) \o Concat(Tail(ps))

(***************************************************************************)
(* Chunker specification: every text of the family, every page count       *)
(***************************************************************************)
\* a text of n characters with '.' at the positions in dots
TextOf(n, dots) == [k \in 1..n |-> IF k \in dots THEN "." ELSE "a"]

\* the texts of up to MaxLen characters with up to MaxDots terminators
ChunkerTexts ==
  {TextOf(n[1], {n[2][k] : k \in 1..MaxDots}) :
     n \in (0..MaxLen) \X [1..MaxDots -> 0..MaxLen]}

ChatIdle ==
  /\ chats = <<>>
  /\ messages = <<>>
  /\ call = <<>>

DeleteIdle == del = <<>>

SearchIdle == search = <<>>

AuthIdle ==
  /\ blacklistedTokens = <<>>
  /\ now = 0
  /\ auth = <<>>

IngestIdle ==
  /\ documents = <<>>
  /\ nextDocId = 1
  /\ embeddings = <<>>
  /\ s3Objects = {}
  /\ run = <<>>

SplitInit ==
  /\ IngestIdle
  /\ ChatIdle
  /\ DeleteIdle
  /\ SearchIdle
  /\ AuthIdle
  /\ text \in ChunkerTexts
  /\ totalPages \in 0..MaxPages
  /\ pages = <<>>
  /\ splitDone = FALSE

SplitCall ==
  /\ ~splitDone
  /\ pages' = splitTextIntoPages(text, totalPages)
  /\ splitDone' = TRUE
  /\ UNCHANGED <<text, totalPages, ingestVars, chatVars, deleteVars, searchVars, authVars>>

SplitNext == SplitCall

SpecSplit == SplitInit /\ [][SplitNext]_vars

\* C1: for every text and page count N > 1 splitTextIntoPages returns exactly
\* N chunks whose in-order concatenation is the text; for N <= 1 it returns
\* the single chunk that is the text.
SplitReconstructs ==
  splitDone =>
    IF totalPages > 1
    THEN Len(pages) = totalPages /\ Concat(pages) = text
    ELSE pages = <<text>>

RECURSIVE LengthBefore(_, _)
\* the number of characters in the first i chunks
LengthBefore(ps, i) == IF i = 0 THEN 0 ELSE LengthBefore(ps, i - 1) + Len(ps[i])

\* the windows that are not the last and end before the end of the text:
\* the chunk of each is cut after the last '.' of the window when snaps says
\* so of its index, and is the raw window of avg characters otherwise
WindowsCut(snaps(_, _)) ==
  LET avg == CeilDiv(Len(text), totalPages)
  IN  /\ Len(pages) = totalPages
      /\ \A i \in 0..(totalPages - 2) :
           LET from == LengthBefore(pages, i)
               to == from + avg
               window == Substring(text, Min(from, Len(text)), Min(to, Len(text)))
               dot == LastIndexOf(window, ".")
           IN  to < Len(text) =>
                 pages[i + 1] = IF snaps(dot, avg)
                                THEN Substring(window, 0, dot + 1)
                                ELSE window

\* a text without '.' is cut into consecutive raw windows of avg characters
RawWindows ==
  LET avg == CeilDiv(Len(text), totalPages)
  IN  (\A k \in 1..Len(text) : text[k] # ".") =>
        \A i \in 0..(totalPages - 1) :
          pages[i + 1] = Substring(text, Min(i * avg, Len(text)),
                                   Min((i + 1) * avg, Len(text)))

Procs == {"p1", "p2"}                 \* concurrent requests
Keys == {"k1", "k2", "k3"}            \* storage keys a request may name
FileNames == {"doc.pdf"}
ContentTypes == {<<"application", "/", "pdf">>, <<"image", "/", "png">>}
FileSizes == {0, 7}                   \* 0: the optional fileSize was not given
MetaSizes == {0, 9}                   \* ContentLength of HeadObject; 0: absent
Vectors == {<<1, 0>>}                 \* what the embedding gateway answers

\* what pdf-parse extracts from the object stored under a key
PdfOf(key) ==
  IF key = "k1"
  THEN [numpages |-> MaxPages,
        text |-> [k \in 1..MaxPages |-> IF k % 2 = 1 THEN "a" ELSE " "]]
  ELSE [numpages |-> 2, text |-> <<" ", "a">>]

\* contentType.includes('pdf')
Includes(contentType, part) == \E k \in 1..Len(contentType) : contentType[k] = part

\* String.prototype.trim
RECURSIVE TrimStart(_)
TrimStart(s) == IF s # <<>> /\ Head(s) = " " THEN TrimStart(Tail(s)) ELSE s

RECURSIVE TrimEnd(_)
TrimEnd(s) ==
  IF s # <<>> /\ s[Len(s)] = " " THEN TrimEnd(SubSeq(s, 1, Len(s) - 1)) ELSE s

Trim(s) == TrimEnd(TrimStart(s))

\* error messages, as sequences of their parts
OnlyPdfMsg == <<"Only PDF files are supported">>
FileMissingMsg(key) == <<"File with key '", key, "' does not exist in S3">>
UniqueMsg == <<"Validation error">>
DbMsg == <<"database error">>
S3Msg == <<"storage error">>
ParseMsg == <<"invalid pdf">>
GatewayMsg == <<"embedding gateway error">>
DownloadFailed(msg) == <<"Failed to download file: ">> \o msg
EmbeddingsFailed(msg) == <<"Failed to create embeddings: ">> \o msg
ProcessingFailed(msg) == <<"Document processing failed: ">> \o msg

\* JSON.stringify of a numeric vector
JSONStringify(v) ==
  <<"[">> \o [k \in 1..(2 * Len(v) - 1) |->
                IF k % 2 = 1 THEN v[(k + 1) \div 2] ELSE ","] \o <<"]">>

\* the provenance-labelled text that is embedded and stored
LabelledText(i, total, fileName, pageContent) ==
  <<"Page ", i + 1, " of ", total, " from document '", fileName, "': ">>
    \o pageContent

\* NextPage without the skip of empty pages
NextPage_KeepEmpty(pageTexts, i) == i

\* the for loop of createPageEmbeddings from index i on: the first index whose
\* page is not empty after trim, or the number of pages when there is none
NextPage(pageTexts, i) ==
  LET rest == {j \in i..(Len(pageTexts) - 1) : Trim(pageTexts[j + 1]) # <<>>}
  IN  IF rest = {} THEN Len(pageTexts)
      ELSE CHOOSE j \in rest : \A k \in rest : j <= k

\* instance.update(values): UPDATE ... WHERE id; no row, no change
UpdateDocument(docs, id, values) ==
  IF id \in DOMAIN docs
  THEN [docs EXCEPT ![id] = [f \in DOMAIN docs[id] |->
          IF f \in DOMAIN values THEN values[f] ELSE docs[id][f]]]
  ELSE docs

IdleRun ==
  [pc |-> "idle", s3Key |-> "", fileName |-> "", contentType |-> <<>>,
   fileSize |-> 0, docId |-> 0, metaSize |-> 0, totalPages |-> 0,
   fullText |-> <<>>, pageTexts |-> <<>>, i |-> 0, embeddingsCreated |-> 0,
   embedding |-> <<>>, error |-> <<>>, result |-> <<>>, failedAt |-> "",
   log |-> <<>>]

IngestInit ==
  /\ documents = <<>>
  /\ nextDocId = 1
  /\ embeddings = <<>>
  /\ s3Objects = {"k1", "k2"}
  /\ run = [p \in Procs |-> IdleRun]
  /\ ChatIdle
  /\ DeleteIdle
  /\ SearchIdle
  /\ AuthIdle
  /\ text = <<>>
  /\ totalPages = 0
  /\ pages = <<>>
  /\ splitDone = FALSE

\* a step of request p: its locals change as given, its log grows by the step
Step(p, name, changes) ==
  run' = [run EXCEPT ![p] = [f \in DOMAIN run[p] |->
            IF f = "log" THEN Append(run[p].log, name)
            ELSE IF f \in DOMAIN changes THEN changes[f]
            ELSE run[p][f]]]

\* a rejection inside the try block: control goes to the catch block
Catch(p, name, msg) ==
  Step(p, name, [pc |-> "catch", error |-> msg, failedAt |-> name])

\* PD_Call without the content-type validation
PD_Call_Unvalidated(p) ==
  /\ run[p].pc = "idle"
  /\ \E key \in Keys, name \in FileNames, ct \in ContentTypes, size \in FileSizes :
       Step(p, "call", [s3Key |-> key, fileName |-> name, contentType |-> ct,
                        fileSize |-> size, pc |-> "create"])
  /\ UNCHANGED <<documents, nextDocId, embeddings, s3Objects, splitVars, chatVars, deleteVars, searchVars, authVars>>

\* processDocument is called: the content type is validated
PD_Call(p) ==
  /\ run[p].pc = "idle"
  /\ \E key \in Keys, name \in FileNames, ct \in ContentTypes, size \in FileSizes :
       LET args == [s3Key |-> key, fileName |-> name, contentType |-> ct,
                    fileSize |-> size]
       IN  \/ /\ ~Includes(ct, "pdf")
              /\ Step(p, "call", args @@ [pc |-> "thrown", error |-> OnlyPdfMsg])
           \/ /\ Includes(ct, "pdf")
              /\ Step(p, "call", args @@ [pc |-> "create"])
  /\ UNCHANGED <<documents, nextDocId, embeddings, s3Objects, splitVars, chatVars, deleteVars, searchVars, authVars>>

\* NewDocument with the column default instead of 'processing'
NewDocument_Pending(id, r) ==
  [id |-> id, name |-> r.fileName, s3Key |-> r.s3Key,
   contentType |-> r.contentType, fileSize |-> r.fileSize, totalPages |-> 0,
   processingStatus |-> "pending", processingError |-> <<>>]

\* the row Document.create inserts
NewDocument(id, r) ==
  [id |-> id, name |-> r.fileName, s3Key |-> r.s3Key,
   contentType |-> r.contentType, fileSize |-> r.fileSize, totalPages |-> 0,
   processingStatus |-> "processing", processingError |-> <<>>]

\* PD_CreateDocument on a table without the unique index on s3Key
PD_CreateDocument_NoUniqueIndex(p) ==
  /\ run[p].pc = "create"
  /\ \/ /\ Step(p, "create", [pc |-> "thrown", error |-> DbMsg])
        /\ UNCHANGED <<documents, nextDocId>>
     \/ /\ documents' = (nextDocId :> NewDocument(nextDocId, run[p])) @@ documents
        /\ nextDocId' = nextDocId + 1
        /\ Step(p, "create", [pc |-> "exists", docId |-> nextDocId])
  /\ UNCHANGED <<embeddings, s3Objects, splitVars, chatVars, deleteVars, searchVars, authVars>>

\* await Document.create(...): outside the try block
PD_CreateDocument(p) ==
  /\ run[p].pc = "create"
  /\ \/ /\ \E d \in DOMAIN documents : documents[d].s3Key = run[p].s3Key
        /\ Step(p, "create", [pc |-> "thrown", error |-> UniqueMsg])
        /\ nextDocId' = nextDocId + 1
        /\ UNCHANGED documents
     \/ /\ Step(p, "create", [pc |-> "thrown", error |-> DbMsg])
        /\ UNCHANGED <<documents, nextDocId>>
     \/ /\ \A d \in DOMAIN documents : documents[d].s3Key # run[p].s3Key
        /\ documents' = (nextDocId :> NewDocument(nextDocId, run[p])) @@ documents
        /\ nextDocId' = nextDocId + 1
        /\ Step(p, "create", [pc |-> "exists", docId |-> nextDocId])
  /\ UNCHANGED <<embeddings, s3Objects, splitVars, chatVars, deleteVars, searchVars, authVars>>

\* await this.s3Service.fileExists(s3Key)
PD_FileExists(p) ==
  /\ run[p].pc = "exists"
  /\ \/ /\ run[p].s3Key \in s3Objects
        /\ Step(p, "exists",
                [pc |-> IF run[p].fileSize = 0 THEN "metadata" ELSE "download"])
     \/ /\ run[p].s3Key \notin s3Objects
        /\ Catch(p, "exists", FileMissingMsg(run[p].s3Key))
     \/ Catch(p, "exists", S3Msg)
  /\ UNCHANGED <<documents, nextDocId, embeddings, s3Objects, splitVars, chatVars, deleteVars, searchVars, authVars>>

\* await this.s3Service.getFileMetadata(s3Key), inside the inner try
PD_GetFileMetadata(p) ==
  /\ run[p].pc = "metadata"
  /\ \/ \E size \in MetaSizes :
          /\ run[p].s3Key \in s3Objects
          /\ Step(p, "metadata",
                  [pc |-> IF size # 0 THEN "metaUpdate" ELSE "download",
                   metaSize |-> size])
     \/ Step(p, "metadata", [pc |-> "download"])
  /\ UNCHANGED <<documents, nextDocId, embeddings, s3Objects, splitVars, chatVars, deleteVars, searchVars, authVars>>

\* await document.update({ fileSize: metadata.size }), inside the inner try
PD_UpdateFileSize(p) ==
  /\ run[p].pc = "metaUpdate"
  /\ \/ documents' = UpdateDocument(documents, run[p].docId,
                                    [fileSize |-> run[p].metaSize])
     \/ UNCHANGED documents
  /\ Step(p, "metaUpdate", [pc |-> "download"])
  /\ UNCHANGED <<nextDocId, embeddings, s3Objects, splitVars, chatVars, deleteVars, searchVars, authVars>>

\* await this.downloadFileFromS3(s3Key)
PD_Download(p) ==
  /\ run[p].pc = "download"
  /\ \/ /\ run[p].s3Key \in s3Objects
        /\ Step(p, "download", [pc |-> "parse"])
     \/ Catch(p, "download", DownloadFailed(S3Msg))
  /\ UNCHANGED <<documents, nextDocId, embeddings, s3Objects, splitVars, chatVars, deleteVars, searchVars, authVars>>

\* await pdfParse(fileBuffer)
PD_Parse(p) ==
  /\ run[p].pc = "parse"
  /\ \/ Step(p, "parse", [pc |-> "updatePages",
                          totalPages |-> PdfOf(run[p].s3Key).numpages,
                          fullText |-> PdfOf(run[p].s3Key).text])
     \/ Catch(p, "parse", ParseMsg)
  /\ UNCHANGED <<documents, nextDocId, embeddings, s3Objects, splitVars, chatVars, deleteVars, searchVars, authVars>>

\* the synchronous start of createPageEmbeddings, up to its first await
EnterLoop(r) ==
  LET pageTexts == splitTextIntoPages(r.fullText, r.totalPages)
      first == NextPage(pageTexts, 0)
  IN  [pc |-> IF first < Len(pageTexts) THEN "embed" ELSE "markCompleted",
       pageTexts |-> pageTexts, i |-> first, embeddingsCreated |-> 0]

\* await document.update({ totalPages }), then createPageEmbeddings begins
PD_UpdateTotalPages(p) ==
  /\ run[p].pc = "updatePages"
  /\ \/ /\ documents' = UpdateDocument(documents, run[p].docId,
                                       [totalPages |-> run[p].totalPages])
        /\ Step(p, "updatePages", EnterLoop(run[p]))
     \/ /\ Catch(p, "updatePages", DbMsg)
        /\ UNCHANGED documents
  /\ UNCHANGED <<nextDocId, embeddings, s3Objects, splitVars, chatVars, deleteVars, searchVars, authVars>>

\* PD_GetEmbedding that logs a gateway rejection and goes on with the next page
PD_GetEmbedding_Swallow(p) ==
  /\ run[p].pc = "embed"
  /\ \/ \E v \in Vectors : Step(p, "embed", [pc |-> "persist", embedding |-> v])
     \/ LET next == NextPage(run[p].pageTexts, run[p].i + 1)
        IN  Step(p, "embed",
                 [pc |-> IF next < Len(run[p].pageTexts) THEN "embed"
                         ELSE "markCompleted",
                  i |-> next, failedAt |-> "embed"])
  /\ UNCHANGED <<documents, nextDocId, embeddings, s3Objects, splitVars, chatVars, deleteVars, searchVars, authVars>>

\* await this.embeddingService.getEmbedding(text) for page i + 1
PD_GetEmbedding(p) ==
  /\ run[p].pc = "embed"
  /\ \/ \E v \in Vectors : Step(p, "embed", [pc |-> "persist", embedding |-> v])
     \/ Catch(p, "embed", EmbeddingsFailed(GatewayMsg))
  /\ UNCHANGED <<documents, nextDocId, embeddings, s3Objects, splitVars, chatVars, deleteVars, searchVars, authVars>>

\* NewEmbedding with the loop index as page number
NewEmbedding_ZeroBased(r) ==
  LET pageContent == Trim(r.pageTexts[r.i + 1])
  IN  [documentId |-> r.docId, pageNumber |-> r.i,
       content |-> LabelledText(r.i, r.totalPages, r.fileName, pageContent),
       embedding |-> JSONStringify(r.embedding),
       tokenCount |-> CeilDiv(Len(pageContent), 4)]

\* the row Embedding.create inserts for page i + 1
NewEmbedding(r) ==
  LET pageContent == Trim(r.pageTexts[r.i + 1])
  IN  [documentId |-> r.docId, pageNumber |-> r.i + 1,
       content |-> LabelledText(r.i, r.totalPages, r.fileName, pageContent),
       embedding |-> JSONStringify(r.embedding),
       tokenCount |-> CeilDiv(Len(pageContent), 4)]

\* embeddingsCreated++ and the loop up to its next await
AfterPersist(r) ==
  LET next == NextPage(r.pageTexts, r.i + 1)
  IN  [pc |-> IF next < Len(r.pageTexts) THEN "embed" ELSE "markCompleted",
       i |-> next, embeddingsCreated |-> r.embeddingsCreated + 1]

\* PD_CreateEmbedding on a table without the foreign key on documentId
PD_CreateEmbedding_NoForeignKey(p) ==
  /\ run[p].pc = "persist"
  /\ \/ /\ embeddings' = Append(embeddings, NewEmbedding(run[p]))
        /\ Step(p, "persist", AfterPersist(run[p]))
     \/ /\ Catch(p, "persist", EmbeddingsFailed(DbMsg))
        /\ UNCHANGED embeddings
  /\ UNCHANGED <<documents, nextDocId, s3Objects, splitVars, chatVars, deleteVars, searchVars, authVars>>

\* await Embedding.create(...)
PD_CreateEmbedding(p) ==
  /\ run[p].pc = "persist"
  /\ \/ /\ run[p].docId \in DOMAIN documents
        /\ embeddings' = Append(embeddings, NewEmbedding(run[p]))
        /\ Step(p, "persist", AfterPersist(run[p]))
     \/ /\ Catch(p, "persist", EmbeddingsFailed(DbMsg))
        /\ UNCHANGED embeddings
  /\ UNCHANGED <<documents, nextDocId, s3Objects, splitVars, chatVars, deleteVars, searchVars, authVars>>

\* await document.update({ processingStatus: 'completed' })
PD_MarkCompleted(p) ==
  /\ run[p].pc = "markCompleted"
  /\ \/ /\ documents' = UpdateDocument(documents, run[p].docId,
                                       [processingStatus |-> "completed"])
        /\ Step(p, "markCompleted", [pc |-> "reload"])
     \/ /\ Catch(p, "markCompleted", DbMsg)
        /\ UNCHANGED documents
  /\ UNCHANGED <<nextDocId, embeddings, s3Objects, splitVars, chatVars, deleteVars, searchVars, authVars>>

\* await document.reload(), then the return
PD_Reload(p) ==
  /\ run[p].pc = "reload"
  /\ \/ /\ run[p].docId \in DOMAIN documents
        /\ Step(p, "reload",
                [pc |-> "returned",
                 result |-> <<[document |-> documents[run[p].docId],
                               embeddingsCreated |-> run[p].embeddingsCreated,
                               totalPages |-> run[p].totalPages]>>])
     \/ Catch(p, "reload", DbMsg)
  /\ UNCHANGED <<documents, nextDocId, embeddings, s3Objects, splitVars, chatVars, deleteVars, searchVars, authVars>>

\* PD_MarkFailed that sets the status and drops the message
PD_MarkFailed_NoMessage(p) ==
  /\ run[p].pc = "catch"
  /\ documents' = UpdateDocument(documents, run[p].docId,
                                 [processingStatus |-> "failed"])
  /\ Step(p, "markFailed",
          [pc |-> "thrown", error |-> ProcessingFailed(run[p].error)])
  /\ UNCHANGED <<nextDocId, embeddings, s3Objects, splitVars, chatVars, deleteVars, searchVars, authVars>>

\* the catch block: await document.update({ failed, error.message }), rethrow.
\* The request has had its failure: the handler's own update is taken to answer.
PD_MarkFailed(p) ==
  /\ run[p].pc = "catch"
  /\ documents' = UpdateDocument(documents, run[p].docId,
                                 [processingStatus |-> "failed",
                                  processingError |-> run[p].error])
  /\ Step(p, "markFailed",
          [pc |-> "thrown", error |-> ProcessingFailed(run[p].error)])
  /\ UNCHANGED <<nextDocId, embeddings, s3Objects, splitVars, chatVars, deleteVars, searchVars, authVars>>

\* one step of the processDocument call of request p
ProcessDocumentStep(p) ==
  \/ PD_Call(p)
  \/ PD_CreateDocument(p)
  \/ PD_FileExists(p)
  \/ PD_GetFileMetadata(p)
  \/ PD_UpdateFileSize(p)
  \/ PD_Download(p)
  \/ PD_Parse(p)
  \/ PD_UpdateTotalPages(p)
  \/ PD_GetEmbedding(p)
  \/ PD_CreateEmbedding(p)
  \/ PD_MarkCompleted(p)
  \/ PD_Reload(p)
  \/ PD_MarkFailed(p)

IngestNext == \E p \in Procs : ProcessDocumentStep(p)

SpecIngest == IngestInit /\ [][IngestNext]_vars

(***************************************************************************)
(* Ingestion: properties                                                   *)
(***************************************************************************)
Finished(p) == run[p].pc \in {"returned", "thrown"}

\* the Embedding rows of document d, in insertion order
RowsOf(d) == SelectSeq(embeddings, LAMBDA e : e.documentId = d)

\* the chunks the Chunker cuts for document d
ChunksOf(d) ==
  splitTextIntoPages(PdfOf(documents[d].s3Key).text, documents[d].totalPages)

\* C4: a processDocument call with a content type that does not indicate PDF
\* is rejected with the only-PDF error before any row is created: the request
\* owns no Document and its steps leave documents and embeddings unchanged.
NonPdfRejected ==
  [][/\ \A p \in Procs :
          (run'[p].pc # "idle" /\ ~Includes(run'[p].contentType, "pdf")) =>
            /\ run'[p].pc = "thrown"
            /\ run'[p].error = OnlyPdfMsg
            /\ run'[p].docId = 0
            /\ run'[p] # run[p] =>
                 /\ documents' = documents
                 /\ embeddings' = embeddings
                 /\ nextDocId' = nextDocId
     /\ \A d \in DOMAIN documents' : Includes(documents'[d].contentType, "pdf")]_vars

NonPdfRejectedWitness ==
  \E p \in Procs :
    /\ run[p].pc = "thrown"
    /\ run[p].contentType = <<"image", "/", "png">>
    /\ \E d \in DOMAIN documents : documents[d].processingStatus = "completed"

TrySteps ==
  {"exists", "download", "parse", "updatePages", "embed", "persist",
   "markCompleted", "reload"}

StatusNeverRegresses ==
  [][\A d \in DOMAIN documents :
       (d \in DOMAIN documents'
          /\ documents[d].processingStatus \in {"completed", "failed"}) =>
         documents'[d].processingStatus = documents[d].processingStatus]_vars

\* C8 as stated: every Document row is created in status pending.
CreatedPending ==
  [][\A d \in DOMAIN documents' \ DOMAIN documents :
       documents'[d].processingStatus = "pending"]_vars

\* C8 as amended: the content type is validated first and the row is created
\* directly in status processing; no row is ever pending, and a row becomes
\* completed or failed only from processing (or failed from completed).
CreatedProcessing ==
  [][/\ \A d \in DOMAIN documents' \ DOMAIN documents :
          /\ documents'[d].processingStatus = "processing"
          /\ Includes(documents'[d].contentType, "pdf")
     /\ \A d \in DOMAIN documents' : documents'[d].processingStatus # "pending"
     /\ \A d \in DOMAIN documents \cap DOMAIN documents' :
          documents'[d].processingStatus # documents[d].processingStatus =>
            /\ documents'[d].processingStatus \in {"completed", "failed"}
            /\ documents[d].processingStatus \in {"processing", "completed"}]_vars

CreatedProcessingWitness ==
  \E d, e \in DOMAIN documents :
    /\ documents[d].processingStatus = "processing"
    /\ documents[e].processingStatus = "completed"

PagesInOrder ==
  /\ \A d \in DOMAIN documents :
       /\ \A k \in 1..Len(RowsOf(d)) : RowsOf(d)[k].pageNumber >= 1
       /\ \A k \in 1..(Len(RowsOf(d)) - 1) :
            RowsOf(d)[k].pageNumber < RowsOf(d)[k + 1].pageNumber
       /\ Cardinality({p \in Procs : run[p].docId = d /\ run[p].pc = "embed"}) <= 1
  /\ \A p \in Procs :
       run[p].pc \in {"embed", "persist"} =>
         \A j \in 0..(run[p].i - 1) :
           Trim(run[p].pageTexts[j + 1]) # <<>> =>
             \E k \in 1..Len(embeddings) :
               /\ embeddings[k].documentId = run[p].docId
               /\ embeddings[k].pageNumber = j + 1

PagesInOrderWitness ==
  \E p, q \in Procs :
    /\ p # q
    /\ run[p].pc = "embed"
    /\ run[p].i = 2
    /\ Len(embeddings) = 2
    /\ embeddings[1].documentId = run[p].docId
    /\ embeddings[2].documentId = run[q].docId

\* C15: no two Document rows share a storage key; a processDocument whose
\* storage key already has a Document row is rejected at Document.create, and
\* that step leaves the documents and the embeddings as they were.
StorageKeyUnique ==
  [][/\ \A d, e \in DOMAIN documents' :
          documents'[d].s3Key = documents'[e].s3Key => d = e
     /\ \A p \in Procs :
          (/\ run[p].pc = "create"
           /\ run'[p].pc # "create"
           /\ \E d \in DOMAIN documents : documents[d].s3Key = run[p].s3Key) =>
            /\ run'[p].pc = "thrown"
            /\ run'[p].docId = 0
            /\ documents' = documents
            /\ embeddings' = embeddings]_vars

StorageKeyUniqueWitness ==
  \E p, q \in Procs :
    /\ p # q
    /\ run[p].pc = "thrown"
    /\ run[p].error = UniqueMsg
    /\ run[q].s3Key = run[p].s3Key
    /\ run[q].pc = "returned"
    /\ Len(ChunksOf(run[q].docId)) >= 1
    /\ Cardinality(DOMAIN documents) = 1

(***************************************************************************)
(* Retrieval: VectorSearchService.searchSimilarEmbeddings                  *)
(*                                                                         *)
(* A JavaScript number is a record: NaN, or a value.  A similarity is kept *)
(* exactly, as the signed square of the cosine: num / den stands for       *)
(* sign(dot) * dot^2 / (|a|^2 * |b|^2), which orders as the cosine does.   *)
(***************************************************************************)
MaxRows == 3        \* most stored embeddings in a drawn store

NaN == [nan |-> TRUE, num |-> 0, den |-> 1]
Num(n) == [nan |-> FALSE, num |-> n, den |-> 1]
Abs(n) == IF n < 0 THEN 0 - n ELSE n

Mul(x, y) == IF x.nan \/ y.nan THEN NaN ELSE Num(x.num * y.num)
Add(x, y) == IF x.nan \/ y.nan THEN NaN ELSE Num(x.num + y.num)

\* x >= y on numbers; any comparison with NaN is false
GreaterOrEqual(x, y) ==
  ~x.nan /\ ~y.nan /\ x.num * y.den >= y.num * x.den

\* b[i] of the value read from the TEXT column, used as a factor: the text of
\* a vector of one-digit numbers has '[' first, then digits and ',' in turn,
\* then ']'; a digit converts to its number, any other character to NaN
CharAsNumber(b, k) == IF k % 2 = 0 /\ k < Len(b) THEN Num(b[k]) ELSE NaN

RECURSIVE SumOver(_, _, _)
\* the accumulation loop over i = 0 .. n - 1 of term(i)
SumOver(term, k, n) ==
  IF k > n THEN Num(0) ELSE Add(term[k], SumOver(term, k + 1, n))

\* cosineSimilarity(a, b): a is the query vector, b the stored column value
cosineSimilarity(a, b) ==
  IF Len(a) # Len(b)
  THEN [threw |-> TRUE, value |-> NaN]
  ELSE LET n == Len(a)
           dotProduct == SumOver([k \in 1..n |-> Mul(Num(a[k]), CharAsNumber(b, k))], 1, n)
           normA == SumOver([k \in 1..n |-> Num(a[k] * a[k])], 1, n)
           normB == SumOver([k \in 1..n |->
                               Mul(CharAsNumber(b, k), CharAsNumber(b, k))], 1, n)
       IN  [threw |-> FALSE,
            value |->
              IF (~normA.nan /\ normA.num = 0) \/ (~normB.nan /\ normB.num = 0)
              THEN Num(0)
              ELSE IF dotProduct.nan \/ normA.nan \/ normB.nan THEN NaN
              ELSE [nan |-> FALSE,
                    num |-> dotProduct.num * Abs(dotProduct.num),
                    den |-> normA.num * normB.num]]

\* similarity >= threshold
MeetsThreshold(similarity, threshold) == GreaterOrEqual(similarity, threshold)

\* the row pushed to results for a stored embedding
SearchResult(e, similarity, docs) ==
  [content |-> e.content, similarity |-> similarity,
   documentId |-> e.documentId, pageNumber |-> e.pageNumber,
   documentName |-> IF e.documentId \in DOMAIN docs
                    THEN <<docs[e.documentId].name>> ELSE <<>>]

RECURSIVE ScanFrom(_, _, _, _, _)
\* the for loop over the rows read: a comparison that throws is logged and
\* the row is passed over
ScanFrom(rows, k, q, threshold, docs) ==
  IF k > Len(rows) THEN <<>>
  ELSE LET c == cosineSimilarity(q, rows[k].embedding)
           rest == ScanFrom(rows, k + 1, q, threshold, docs)
       IN  IF ~c.threw /\ MeetsThreshold(c.value, threshold)
           THEN <<SearchResult(rows[k], c.value, docs)>> \o rest
           ELSE rest

RECURSIVE InsertDescending(_, _)
\* r is placed behind every element that is not smaller than it
InsertDescending(sorted, r) ==
  IF sorted = <<>> THEN <<r>>
  ELSE IF GreaterOrEqual(Head(sorted).similarity, r.similarity)
       THEN <<Head(sorted)>> \o InsertDescending(Tail(sorted), r)
       ELSE <<r>> \o sorted

RECURSIVE SortDescending(_)
\* results.sort((a, b) => b.similarity - a.similarity): stable
SortDescending(rs) ==
  IF rs = <<>> THEN <<>>
  ELSE InsertDescending(SortDescending(SubSeq(rs, 1, Len(rs) - 1)), rs[Len(rs)])

\* Slice that ignores the limit
Slice_All(rs, limit) == rs

\* results.slice(0, limit) for limit >= 0
Slice(rs, limit) == SubSeq(rs, 1, Min(limit, Len(rs)))

QueryVectors == {<<1, 0>>, <<1, 0, 0>>, <<1, 0, 0, 0, 0>>, <<0, 0, 0, 0, 0>>}
Limits == {0, 1, 2}
Thresholds == {Num(0), [nan |-> FALSE, num |-> 49, den |-> 100]}   \* 0 and 0.7

SearchFailed(msg) == <<"Failed to search embeddings: ">> \o msg

IdleSearch ==
  [pc |-> "idle", queryEmbedding |-> <<>>, limit |-> 0, threshold |-> Num(0),
   scanned |-> <<>>, results |-> <<>>, error |-> <<>>, deletedBefore |-> {}]

\* searchSimilarEmbeddings(queryEmbedding, limit, threshold) is called
SS_Call ==
  /\ search.pc = "idle"
  /\ \E q \in QueryVectors, k \in Limits, t \in Thresholds :
       search' = [search EXCEPT !.pc = "findAll", !.queryEmbedding = q,
                                !.limit = k, !.threshold = t]
  /\ UNCHANGED <<splitVars, ingestVars, chatVars, deleteVars, authVars>>

\* SS_FindAll that reads the rows of completed documents only
SS_FindAll_CompletedOnly ==
  /\ search.pc = "findAll"
  /\ LET read == SelectSeq(embeddings, LAMBDA e :
                   /\ e.documentId \in DOMAIN documents
                   /\ documents[e.documentId].processingStatus = "completed")
     IN  \/ search' = [search EXCEPT
                !.pc = "returned",
                !.scanned = read,
                !.deletedBefore = {del[r].documentId :
                                     r \in {x \in DOMAIN del : del[x].pc = "returned"}},
                !.results = Slice(SortDescending(
                                    ScanFrom(read, 1, search.queryEmbedding,
                                             search.threshold, documents)),
                                  search.limit)]
         \/ search' = [search EXCEPT !.pc = "thrown", !.error = SearchFailed(DbMsg)]
  /\ UNCHANGED <<splitVars, ingestVars, chatVars, deleteVars, authVars>>

\* await Embedding.findAll(...), then the scan, the sort and the slice
SS_FindAll ==
  /\ search.pc = "findAll"
  /\ \/ search' = [search EXCEPT
          !.pc = "returned",
          !.scanned = embeddings,
          !.deletedBefore = {del[r].documentId :
                               r \in {x \in DOMAIN del : del[x].pc = "returned"}},
          !.results = Slice(SortDescending(
                              ScanFrom(embeddings, 1, search.queryEmbedding,
                                       search.threshold, documents)),
                            search.limit)]
     \/ search' = [search EXCEPT !.pc = "thrown", !.error = SearchFailed(DbMsg)]
  /\ UNCHANGED <<splitVars, ingestVars, chatVars, deleteVars, authVars>>

SearchNext == SS_Call \/ SS_FindAll

\* the row ingestion stores for page n of document d with gateway vector v
StoredRow(d, n, v) ==
  [documentId |-> d, pageNumber |-> n,
   content |-> LabelledText(n - 1, MaxRows, "doc.pdf", <<"a">>),
   embedding |-> JSONStringify(v), tokenCount |-> 1]

StoredVectors == {<<1, 0>>, <<0, 0>>, <<1, 1, 0>>}

\* the stores of up to MaxRows embeddings of one completed document
Stores ==
  UNION {{[n \in 1..len |-> StoredRow(1, n, vs[n])] :
            vs \in [1..len -> StoredVectors]} : len \in 0..MaxRows}

SearchInit ==
  /\ embeddings \in Stores
  /\ documents = (1 :> [id |-> 1, name |-> "doc.pdf", s3Key |-> "k1",
                        contentType |-> <<"application", "/", "pdf">>,
                        fileSize |-> 7, totalPages |-> MaxRows,
                        processingStatus |-> "completed",
                        processingError |-> <<>>])
  /\ nextDocId = 2
  /\ s3Objects = {"k1", "k2"}
  /\ run = <<>>
  /\ search = IdleSearch
  /\ AuthIdle
  /\ ChatIdle
  /\ DeleteIdle
  /\ text = <<>>
  /\ totalPages = 0
  /\ pages = <<>>
  /\ splitDone = FALSE

SpecSearch == SearchInit /\ [][SearchNext]_vars

\* the similarity the scan computes for a stored row, when it computes one
Scored(e) ==
  LET c == cosineSimilarity(search.queryEmbedding, e.embedding)
  IN  IF c.threw \/ c.value.nan THEN <<>> ELSE <<c.value>>

\* the number of components of the vector a stored text was written from
VectorLength(b) == (Len(b) - 1) \div 2

MismatchFailsSearch ==
  search.pc = "returned" =>
    \A j \in 1..Len(search.scanned) :
      VectorLength(search.scanned[j].embedding) = Len(search.queryEmbedding)

\* C29: the value a search hands to cosineSimilarity for a stored row has as
\* many components as the gateway vector it was written from, and a row
\* written from a vector equal to the query vector is returned with
\* similarity 1 whenever the limit leaves room for it.
StoredVectorRoundTrips ==
  search.pc = "returned" =>
    \A j \in 1..Len(search.scanned) :
      LET e == search.scanned[j]
      IN  /\ Len(e.embedding) = VectorLength(e.embedding)
          /\ (/\ e.embedding = JSONStringify(search.queryEmbedding)
              /\ search.limit >= Len(search.scanned)) =>
               \E k \in 1..Len(search.results) :
                 /\ search.results[k].documentId = e.documentId
                 /\ search.results[k].pageNumber = e.pageNumber
                 /\ GreaterOrEqual(search.results[k].similarity, Num(1))
                 /\ GreaterOrEqual(Num(1), search.results[k].similarity)

(***************************************************************************)
(* Deletion: DocumentService.deleteDocument                                *)
(*                                                                         *)
(* embeddings.documentId references documents.id.  The store rejects an    *)
(* insert that names no document; on the delete of a document that still   *)
(* has embeddings it either deletes them with it or rejects the delete,    *)
(* as the constraint was generated.                                        *)
(***************************************************************************)
Deleters == {"r1"}                    \* requests that call deleteDocument
DocIds == {1, 2}                      \* document ids a request may name

DocNotFoundMsg == <<"Document not found">>
DeleteFailed(msg) == <<"Failed to delete document: ">> \o msg

IdleDelete ==
  [pc |-> "idle", documentId |-> 0, s3Key |-> "", name |-> "",
   embeddingCount |-> 0, s3Deleted |-> FALSE, error |-> <<>>, result |-> <<>>,
   fileDeleteRejected |-> FALSE, log |-> <<>>]

\* a step of delete request r
DeleteStep(r, name, changes) ==
  del' = [del EXCEPT ![r] = [f \in DOMAIN del[r] |->
            IF f = "log" THEN Append(del[r].log, name)
            ELSE IF f \in DOMAIN changes THEN changes[f]
            ELSE del[r][f]]]

\* WithoutDocument that deletes nothing
WithoutDocument_Keep(rows, d) == rows

\* the rows that are left when those of document d are deleted
WithoutDocument(rows, d) == SelectSeq(rows, LAMBDA e : e.documentId # d)

\* the documents that are left when d is deleted
WithoutRow(docs, d) == [x \in DOMAIN docs \ {d} |-> docs[x]]

\* deleteDocument(documentId) is called
DD_Call(r) ==
  /\ del[r].pc = "idle"
  /\ \E d \in DocIds : DeleteStep(r, "call", [pc |-> "find", documentId |-> d])
  /\ UNCHANGED <<splitVars, ingestVars, chatVars, searchVars, authVars>>

\* await Document.findByPk(documentId, { include: [Embedding] })
DD_Find(r) ==
  /\ del[r].pc = "find"
  /\ LET d == del[r].documentId
     IN  \/ /\ d \notin DOMAIN documents
            /\ DeleteStep(r, "find", [pc |-> "thrown",
                                      error |-> DeleteFailed(DocNotFoundMsg)])
         \/ /\ d \in DOMAIN documents
            /\ DeleteStep(r, "find",
                 [pc |-> "deleteFile", s3Key |-> documents[d].s3Key,
                  name |-> documents[d].name,
                  embeddingCount |-> Len(SelectSeq(embeddings,
                                           LAMBDA e : e.documentId = d))])
  /\ UNCHANGED <<splitVars, ingestVars, chatVars, searchVars, authVars>>

\* await this.s3Service.deleteFile(s3Key), inside the inner try
DD_DeleteFile(r) ==
  /\ del[r].pc = "deleteFile"
  /\ \/ /\ s3Objects' = s3Objects \ {del[r].s3Key}
        /\ DeleteStep(r, "deleteFile", [pc |-> "destroyEmbeddings",
                                        s3Deleted |-> TRUE])
     \/ /\ DeleteStep(r, "deleteFile", [pc |-> "destroyEmbeddings",
                                        fileDeleteRejected |-> TRUE])
        /\ UNCHANGED s3Objects
  /\ UNCHANGED <<documents, nextDocId, embeddings, run,
                 splitVars, chatVars, searchVars, authVars>>

\* await Embedding.destroy({ where: { documentId } })
DD_DestroyEmbeddings(r) ==
  /\ del[r].pc = "destroyEmbeddings"
  /\ \/ /\ embeddings' = WithoutDocument(embeddings, del[r].documentId)
        /\ DeleteStep(r, "destroyEmbeddings", [pc |-> "destroyDocument"])
     \/ /\ DeleteStep(r, "destroyEmbeddings",
                      [pc |-> "thrown", error |-> DeleteFailed(DbMsg)])
        /\ UNCHANGED embeddings
  /\ UNCHANGED <<documents, nextDocId, s3Objects, run,
                 splitVars, chatVars, searchVars, authVars>>

\* DeleteResult that always reports the file as deleted
DeleteResult_FileDeleted(r) ==
  <<[message |-> <<"Document '", del[r].name, "' deleted successfully">>,
     deletedEmbeddings |-> del[r].embeddingCount,
     s3Deleted |-> TRUE]>>

\* the value deleteDocument returns
DeleteResult(r) ==
  <<[message |-> <<"Document '", del[r].name, "' deleted successfully">>,
     deletedEmbeddings |-> del[r].embeddingCount,
     s3Deleted |-> del[r].s3Deleted]>>

\* await document.destroy(), then the return
DD_DestroyDocument(r) ==
  /\ del[r].pc = "destroyDocument"
  /\ LET d == del[r].documentId
     IN  \/ /\ documents' = WithoutRow(documents, d)
            /\ embeddings' = WithoutDocument(embeddings, d)
            /\ DeleteStep(r, "destroyDocument",
                          [pc |-> "returned", result |-> DeleteResult(r)])
         \/ /\ \E k \in 1..Len(embeddings) : embeddings[k].documentId = d
            /\ DeleteStep(r, "destroyDocument",
                          [pc |-> "thrown", error |-> DeleteFailed(DbMsg)])
            /\ UNCHANGED <<documents, embeddings>>
         \/ /\ DeleteStep(r, "destroyDocument",
                          [pc |-> "thrown", error |-> DeleteFailed(DbMsg)])
            /\ UNCHANGED <<documents, embeddings>>
  /\ UNCHANGED <<nextDocId, s3Objects, run, splitVars, chatVars, searchVars, authVars>>

\* one step of the deleteDocument call of request r
DeleteDocumentStep(r) ==
  \/ DD_Call(r)
  \/ DD_Find(r)
  \/ DD_DeleteFile(r)
  \/ DD_DestroyEmbeddings(r)
  \/ DD_DestroyDocument(r)

\* the requests of the specification of ingestion, deletion and search
Ingesters == {"p1"}

\* the store after processDocument("k2", "doc.pdf", "application/pdf", 7) has
\* returned: document 1, completed, with the one embedding of its second page
LifecycleInit ==
  /\ documents = (1 :> [NewDocument(1, [fileName |-> "doc.pdf", s3Key |-> "k2",
                                        contentType |-> <<"application", "/", "pdf">>,
                                        fileSize |-> 7])
                        EXCEPT !.totalPages = PdfOf("k2").numpages,
                               !.processingStatus = "completed"])
  /\ nextDocId = 2
  /\ embeddings = <<NewEmbedding([docId |-> 1, i |-> 1, fileName |-> "doc.pdf",
                                  totalPages |-> PdfOf("k2").numpages,
                                  pageTexts |-> splitTextIntoPages(
                                    PdfOf("k2").text, PdfOf("k2").numpages),
                                  embedding |-> <<1, 0>>])>>
  /\ s3Objects = {"k1", "k2"}
  /\ run = [p \in Procs |-> IdleRun]
  /\ del = [r \in Deleters |-> IdleDelete]
  /\ search = IdleSearch
  /\ AuthIdle
  /\ ChatIdle
  /\ text = <<>>
  /\ totalPages = 0
  /\ pages = <<>>
  /\ splitDone = FALSE

LifecycleNext ==
  \/ \E p \in Ingesters : ProcessDocumentStep(p)
  \/ \E r \in Deleters : DeleteDocumentStep(r)
  \/ SearchNext

SpecLifecycle == LifecycleInit /\ [][LifecycleNext]_vars

(***************************************************************************)
(* Deletion: properties                                                    *)
(***************************************************************************)
\* C11: every Embedding row's documentId refers to an existing Document row,
\* in every state, also while a deleteDocument and a processDocument of the
\* same document interleave.
EmbeddingsHaveDocument ==
  \A k \in 1..Len(embeddings) : embeddings[k].documentId \in DOMAIN documents

EmbeddingsHaveDocumentWitness ==
  \E p \in Ingesters, r \in Deleters :
    /\ del[r].pc = "returned"
    /\ del[r].documentId = run[p].docId
    /\ run[p].pc = "persist"
    /\ run[p].embeddingsCreated >= 1
    /\ del[r].embeddingCount = 0
    /\ Len(embeddings) = 1

\* C12: once deleteDocument(d) has returned, there is no Document row d and no
\* Embedding row of d, and a search that reads the store afterwards neither
\* scans nor returns a row of d.
DeletedDocumentGone ==
  /\ \A r \in DOMAIN del :
       del[r].pc = "returned" =>
         /\ del[r].documentId \notin DOMAIN documents
         /\ \A k \in 1..Len(embeddings) :
              embeddings[k].documentId # del[r].documentId
  /\ search.pc = "returned" =>
       /\ \A k \in 1..Len(search.scanned) :
            search.scanned[k].documentId \notin search.deletedBefore
       /\ \A k \in 1..Len(search.results) :
            search.results[k].documentId \notin search.deletedBefore

DeletedDocumentGoneWitness ==
  \E r \in Deleters :
    /\ del[r].pc = "returned"
    /\ del[r].embeddingCount >= 1
    /\ search.pc = "returned"
    /\ search.deletedBefore = {del[r].documentId}
    /\ Len(search.results) >= 1

\* C13: deleteDocument attempts the deletion of the stored file only after it
\* has deleted the Embedding rows of the document.
EmbeddingsDeletedBeforeFile ==
  \A r \in DOMAIN del :
    \A k \in 1..Len(del[r].log) :
      del[r].log[k] = "deleteFile" =>
        \E j \in 1..(k - 1) : del[r].log[j] = "destroyEmbeddings"

\* C14: a rejected file deletion does not end the call: the step goes on to
\* the record deletion, and when the call returns the Document row and its
\* Embedding rows are gone and s3Deleted tells whether the file deletion
\* succeeded; such a call throws only where a record deletion was rejected.
FileFailureDoesNotBlock ==
  [][\A r \in DOMAIN del :
       /\ (del[r].pc = "deleteFile" /\ del'[r].pc # "deleteFile") =>
            del'[r].pc = "destroyEmbeddings"
       /\ del'[r].pc = "returned" =>
            /\ del'[r].documentId \notin DOMAIN documents'
            /\ \A k \in 1..Len(embeddings') :
                 embeddings'[k].documentId # del'[r].documentId
            /\ del'[r].result[1].s3Deleted = ~del'[r].fileDeleteRejected
       /\ (del'[r].pc = "thrown" /\ del'[r].fileDeleteRejected) =>
            del'[r].log[Len(del'[r].log)]
              \in {"destroyEmbeddings", "destroyDocument"}]_vars

FileFailureDoesNotBlockWitness ==
  \E r \in Deleters :
    /\ del[r].pc = "returned"
    /\ del[r].fileDeleteRejected
    /\ del[r].result[1].s3Deleted = FALSE
    /\ del[r].result[1].deletedEmbeddings >= 1
    /\ del[r].s3Key \in s3Objects
    /\ del[r].documentId \notin DOMAIN documents

\* the number of non-empty chunks among the first n chunks
RECURSIVE NonEmptyBefore(_, _)
NonEmptyBefore(pageTexts, n) ==
  IF n = 0 THEN 0
  ELSE NonEmptyBefore(pageTexts, n - 1)
         + (IF Len(Trim(pageTexts[n])) = 0 THEN 0 ELSE 1)

\* the run of p failed at the embedding gateway or at the Embedding persist,
\* and no delete request has named its document
FailedAtChunk(p) ==
  /\ run[p].pc = "thrown"
  /\ run[p].failedAt \in {"embed", "persist"}
  /\ run[p].docId \in DOMAIN documents
  /\ \A r \in Deleters : del[r].documentId # run[p].docId

Users == {"u1", "u2"}
ChatIds == {"c1", "c2", "c3", "c4"}   \* c4 names no row
Queries == {"q1", "q2"}
Answers == {"answer"}                 \* choice.message.content
TokenTotals == {0, 5}                 \* response.usage.total_tokens || 0
HistoryLimit == 10                    \* limit of the history query

NotFoundMsg == <<"Chat not found or access denied">>
LlmMsg == <<"completion gateway error">>
LlmFailed(msg) == <<"Failed to generate LLM response: ">> \o msg
QueryFailed(msg) == <<"Failed to process query: ">> \o msg

ChatRow(id, user, status, total, tokens) ==
  [id |-> id, title |-> "title", description |-> "", userId |-> user,
   status |-> status,
   metadata |-> [totalMessages |-> total, totalTokensUsed |-> tokens]]

IdleCall ==
  [pc |-> "idle", chatId |-> "", userId |-> "", query |-> "", chat |-> <<>>,
   chatHistory |-> <<>>, llmResponse |-> <<>>, error |-> <<>>, result |-> <<>>,
   log |-> <<>>]

\* an active chat of each user and a chat of u1 that was deleted
ChatInit ==
  /\ chats = ("c1" :> ChatRow("c1", "u1", "active", 0, 0))
               @@ ("c2" :> ChatRow("c2", "u2", "active", 0, 0))
               @@ ("c3" :> ChatRow("c3", "u1", "deleted", 2, 5))
  /\ messages = <<>>
  /\ call = [p \in Procs |-> IdleCall]
  /\ IngestIdle
  /\ DeleteIdle
  /\ SearchIdle
  /\ AuthIdle
  /\ text = <<>>
  /\ totalPages = 0
  /\ pages = <<>>
  /\ splitDone = FALSE

InFlight(q) == call[q].pc \notin {"idle", "returned", "thrown"}

\* a step of request p of the chat service
ChatStep(p, name, changes) ==
  call' = [call EXCEPT ![p] = [f \in DOMAIN call[p] |->
             IF f = "log" THEN Append(call[p].log, name)
             ELSE IF f \in DOMAIN changes THEN changes[f]
             ELSE call[p][f]]]

\* the catch block of processQuery: rethrow wrapped
QueryThrows(p, name, msg) ==
  ChatStep(p, name, [pc |-> "thrown", error |-> QueryFailed(msg)])

\* FindActiveChat without the status condition
FindActiveChat_AnyStatus(id, user) ==
  IF id \in DOMAIN chats /\ chats[id].userId = user THEN <<chats[id]>> ELSE <<>>

\* Chat.findOne({ where: { id, userId, status: 'active' } })
FindActiveChat(id, user) ==
  IF id \in DOMAIN chats /\ chats[id].userId = user /\ chats[id].status = "active"
  THEN <<chats[id]>>
  ELSE <<>>

\* the chat's message rows, oldest first
MessagesOf(rows, id) == SelectSeq(rows, LAMBDA m : m.chatId = id)

\* RecentHistory without the reverse(): newest first
RecentHistory_NewestFirst(rows, id) ==
  LET all == MessagesOf(rows, id)
      n   == IF Len(all) > HistoryLimit THEN HistoryLimit ELSE Len(all)
  IN  [k \in 1..n |->
         [role |-> all[Len(all) - k + 1].role,
          content |-> all[Len(all) - k + 1].content]]

\* ChatMessage.findAll({ order: createdAt DESC, limit: 10 }), then reverse()
RecentHistory(rows, id) ==
  LET all == MessagesOf(rows, id)
      from == IF Len(all) > HistoryLimit THEN Len(all) - HistoryLimit + 1 ELSE 1
  IN  [k \in 1..(Len(all) - from + 1) |->
         [role |-> all[from + k - 1].role, content |-> all[from + k - 1].content]]

\* processQuery is called; while overlap is FALSE a chat serves one request
\* at a time
PQ_Call(p, overlap) ==
  /\ call[p].pc = "idle"
  /\ \E id \in ChatIds, user \in Users, query \in Queries :
       /\ overlap \/ \A q \in Procs \ {p} : ~(InFlight(q) /\ call[q].chatId = id)
       /\ ChatStep(p, "call", [pc |-> "findChat", chatId |-> id, userId |-> user,
                               query |-> query])
  /\ UNCHANGED <<chats, messages, splitVars, ingestVars, deleteVars, searchVars, authVars>>

\* await Chat.findOne(...): the chat must exist, be the caller's and be active
PQ_FindChat(p) ==
  /\ call[p].pc = "findChat"
  /\ LET found == FindActiveChat(call[p].chatId, call[p].userId)
     IN  \/ /\ found = <<>>
            /\ QueryThrows(p, "findChat", NotFoundMsg)
         \/ /\ found # <<>>
            /\ ChatStep(p, "findChat", [pc |-> "history", chat |-> found])
  /\ UNCHANGED <<chats, messages, splitVars, ingestVars, deleteVars, searchVars, authVars>>

\* await ChatMessage.findAll(...): the conversation history
PQ_History(p) ==
  /\ call[p].pc = "history"
  /\ ChatStep(p, "history",
              [pc |-> "generate",
               chatHistory |-> RecentHistory(messages, call[p].chatId)])
  /\ UNCHANGED <<chats, messages, splitVars, ingestVars, deleteVars, searchVars, authVars>>

\* PQ_Generate in a processQuery that saves the user message before the call
PQ_Generate_AfterSave(p) ==
  /\ call[p].pc = "generate"
  /\ messages' = Append(messages,
                        [chatId |-> call[p].chatId, role |-> "user",
                         content |-> call[p].query, by |-> p])
  /\ \/ \E answer \in Answers, total \in TokenTotals :
          ChatStep(p, "generate",
                   [pc |-> "saveAssistant",
                    llmResponse |-> <<[answer |-> answer, total |-> total]>>])
     \/ QueryThrows(p, "generate", LlmFailed(LlmMsg))
  /\ UNCHANGED <<chats, splitVars, ingestVars, deleteVars, searchVars, authVars>>

\* await this.llmService.generateResponse(query, '', chatHistory)
PQ_Generate(p) ==
  /\ call[p].pc = "generate"
  /\ \/ \E answer \in Answers, total \in TokenTotals :
          ChatStep(p, "generate",
                   [pc |-> "saveUser",
                    llmResponse |-> <<[answer |-> answer, total |-> total]>>])
     \/ QueryThrows(p, "generate", LlmFailed(LlmMsg))
  /\ UNCHANGED <<chats, messages, splitVars, ingestVars, deleteVars, searchVars, authVars>>

\* the row ChatMessage.create inserts; by names the request that wrote it
NewMessage(p, role, content) ==
  [chatId |-> call[p].chatId, role |-> role, content |-> content, by |-> p]

\* await ChatMessage.create({ role: 'user', content: query })
PQ_SaveUser(p) ==
  /\ call[p].pc = "saveUser"
  /\ \/ /\ messages' = Append(messages, NewMessage(p, "user", call[p].query))
        /\ ChatStep(p, "saveUser", [pc |-> "saveAssistant"])
     \/ /\ QueryThrows(p, "saveUser", DbMsg)
        /\ UNCHANGED messages
  /\ UNCHANGED <<chats, splitVars, ingestVars, deleteVars, searchVars, authVars>>

\* await ChatMessage.create({ role: 'assistant', content: llmResponse.answer })
PQ_SaveAssistant(p) ==
  /\ call[p].pc = "saveAssistant"
  /\ \/ /\ messages' = Append(messages,
                              NewMessage(p, "assistant", call[p].llmResponse[1].answer))
        /\ ChatStep(p, "saveAssistant", [pc |-> "updateChat"])
     \/ /\ QueryThrows(p, "saveAssistant", DbMsg)
        /\ UNCHANGED messages
  /\ UNCHANGED <<chats, splitVars, ingestVars, deleteVars, searchVars, authVars>>

\* NextMetadata counting one message for the exchange
NextMetadata_PlusOne(currentMetadata, total) ==
  [totalMessages |-> currentMetadata.totalMessages + 1,
   totalTokensUsed |-> currentMetadata.totalTokensUsed + total]

\* the metadata chat.update writes, from the instance read by findOne
NextMetadata(currentMetadata, total) ==
  [totalMessages |-> currentMetadata.totalMessages + 2,
   totalTokensUsed |-> currentMetadata.totalTokensUsed + total]

\* await chat.update({ metadata, updatedAt }), then the return
PQ_UpdateChat(p) ==
  /\ call[p].pc = "updateChat"
  /\ \/ /\ chats' = [chats EXCEPT ![call[p].chatId].metadata =
                       NextMetadata(call[p].chat[1].metadata,
                                    call[p].llmResponse[1].total)]
        /\ ChatStep(p, "updateChat",
                    [pc |-> "returned",
                     result |-> <<[chatId |-> call[p].chatId,
                                   query |-> call[p].query,
                                   answer |-> call[p].llmResponse[1].answer,
                                   tokensUsed |-> call[p].llmResponse[1].total]>>])
     \/ /\ QueryThrows(p, "updateChat", DbMsg)
        /\ UNCHANGED chats
  /\ UNCHANGED <<messages, splitVars, ingestVars, deleteVars, searchVars, authVars>>

ChatNext ==
  \E p \in Procs :
    \/ PQ_Call(p, FALSE)
    \/ PQ_FindChat(p)
    \/ PQ_History(p)
    \/ PQ_Generate(p)
    \/ PQ_SaveUser(p)
    \/ PQ_SaveAssistant(p)
    \/ PQ_UpdateChat(p)

SpecChat == ChatInit /\ [][ChatNext]_vars

(***************************************************************************)
(* Chat orchestration: properties                                          *)
(***************************************************************************)
\* the message rows request p has written, in creation order
WrittenBy(rows, p) == SelectSeq(rows, LAMBDA m : m.by = p)

\* C2: when processQuery returns, the request has persisted exactly two rows
\* for its chat, the user row with the query and then the assistant row with
\* the answer, and its update raises metadata.totalMessages by exactly 2.
QueryPersistsPair ==
  [][\A p \in Procs :
       (call[p].pc = "updateChat" /\ call'[p].pc = "returned") =>
         LET id == call[p].chatId
             mine == WrittenBy(messages', p)
         IN  /\ Len(mine) = 2
             /\ mine[1] = [chatId |-> id, role |-> "user",
                           content |-> call[p].query, by |-> p]
             /\ mine[2] = [chatId |-> id, role |-> "assistant",
                           content |-> call'[p].result[1].answer, by |-> p]
             /\ SubSeq(MessagesOf(messages', id),
                       Len(MessagesOf(messages', id)) - 1,
                       Len(MessagesOf(messages', id))) = mine
             /\ chats'[id].metadata.totalMessages
                  = chats[id].metadata.totalMessages + 2]_vars

QueryPersistsPairWitness ==
  /\ \A p \in Procs : call[p].pc = "returned" /\ call[p].chatId = "c1"
  /\ chats["c1"].metadata.totalMessages = 4
  /\ Len(MessagesOf(messages, "c1")) = 4

\* C3: processQuery on a chat that is absent, not the caller's or not active
\* fails with the not-found error at the lookup; that step and the request as
\* a whole write no message row and change no chat row.
QueryOnMissingChatFails ==
  [][\A p \in Procs :
       /\ (/\ call[p].pc = "findChat"
           /\ call'[p].pc # "findChat"
           /\ \/ call[p].chatId \notin DOMAIN chats
              \/ chats[call[p].chatId].userId # call[p].userId
              \/ chats[call[p].chatId].status # "active") =>
            /\ call'[p].pc = "thrown"
            /\ call'[p].error = QueryFailed(NotFoundMsg)
            /\ messages' = messages
            /\ chats' = chats
       /\ (call'[p].pc = "thrown" /\ call'[p].error = QueryFailed(NotFoundMsg)) =>
            /\ WrittenBy(messages', p) = <<>>
            /\ call'[p].log = <<"call", "findChat">>]_vars

QueryOnMissingChatFailsWitness ==
  \E p, q \in Procs :
    /\ call[p].pc = "thrown"
    /\ call[p].error = QueryFailed(NotFoundMsg)
    /\ call[p].chatId = "c3"
    /\ call[p].userId = "u1"
    /\ call[q].pc = "returned"
    /\ Len(messages) = 2

(***************************************************************************)
(* The conversation sent to the completion gateway.  Rows are kept in      *)
(* creation order; two rows of a chat never carry the same createdAt.      *)
(***************************************************************************)
MaxHistory == 12

SystemPrompt == "system prompt"

\* LLMService.generateResponse: messages = [system, ...chatHistory, user query]
GatewayMessages(chatHistory, query) ==
  <<[role |-> "system", content |-> SystemPrompt]>>
    \o chatHistory
    \o <<[role |-> "user", content |-> query]>>

\* n stored messages, alternately of the user and of the assistant; when
\* shared, every third one belongs to the chat of the other user
SeededMessages(n, shared) ==
  [k \in 1..n |->
     [chatId  |-> IF shared /\ k % 3 = 0 THEN "c2" ELSE "c1",
      role    |-> IF k % 2 = 1 THEN "user" ELSE "assistant",
      content |-> ToString(k),
      by      |-> "seed"]]

HistoryInit ==
  /\ \E n \in 0..MaxHistory, shared \in BOOLEAN :
       /\ messages = SeededMessages(n, shared)
       /\ chats = ("c1" :> ChatRow("c1", "u1", "active",
                                   Len(MessagesOf(SeededMessages(n, shared), "c1")), 0))
                    @@ ("c2" :> ChatRow("c2", "u2", "active",
                                   Len(MessagesOf(SeededMessages(n, shared), "c2")), 0))
                    @@ ("c3" :> ChatRow("c3", "u1", "deleted", 2, 5))
  /\ call = [p \in Procs |-> IdleCall]
  /\ IngestIdle
  /\ DeleteIdle
  /\ SearchIdle
  /\ AuthIdle
  /\ text = <<>>
  /\ totalPages = 0
  /\ pages = <<>>
  /\ splitDone = FALSE

SpecHistory == HistoryInit /\ [][ChatNext]_vars

GatewayFailureWritesNothing ==
  [][\A p \in Procs :
       /\ (call[p].pc = "generate" /\ call'[p].pc = "thrown") =>
            /\ call'[p].error = QueryFailed(LlmFailed(LlmMsg))
            /\ messages' = messages
            /\ chats' = chats
            /\ chats'[call'[p].chatId].metadata = call'[p].chat[1].metadata
       /\ (call'[p].pc = "thrown"
             /\ call'[p].error = QueryFailed(LlmFailed(LlmMsg))) =>
            WrittenBy(messages', p) = <<>>]_vars

GatewayFailureWritesNothingWitness ==
  \E p, q \in Procs :
    /\ call[p].pc = "thrown"
    /\ call[p].error = QueryFailed(LlmFailed(LlmMsg))
    /\ call[q].pc = "returned"
    /\ call[q].chatId = call[p].chatId
    /\ call[p].chat[1].metadata.totalMessages = 2
    /\ Len(MessagesOf(messages, call[p].chatId)) = 2

(***************************************************************************)
(* Chat orchestration with overlapping requests, and deleteChat            *)
(***************************************************************************)
ChatDeleters == {"d1"}                \* requests that call deleteChat

DeleteChatFailed(msg) == <<"Failed to delete chat: ">> \o msg

\* deleteChat(chatId, userId) is called
DC_Call(d) ==
  /\ call[d].pc = "idle"
  /\ \E id \in ChatIds, user \in Users :
       ChatStep(d, "call", [pc |-> "dcFind", chatId |-> id, userId |-> user])
  /\ UNCHANGED <<chats, messages, splitVars, ingestVars, deleteVars, searchVars, authVars>>

\* await Chat.findOne(...), and return false when there is no such chat
DC_Find(d) ==
  /\ call[d].pc = "dcFind"
  /\ LET found == FindActiveChat(call[d].chatId, call[d].userId)
     IN  \/ /\ found = <<>>
            /\ ChatStep(d, "dcFind", [pc |-> "returned", result |-> <<FALSE>>])
         \/ /\ found # <<>>
            /\ ChatStep(d, "dcFind", [pc |-> "dcDestroy", chat |-> found])
  /\ UNCHANGED <<chats, messages, splitVars, ingestVars, deleteVars, searchVars, authVars>>

\* await ChatMessage.destroy({ where: { chatId } })
DC_DestroyMessages(d) ==
  /\ call[d].pc = "dcDestroy"
  /\ \/ /\ messages' = SelectSeq(messages, LAMBDA m : m.chatId # call[d].chatId)
        /\ ChatStep(d, "dcDestroy", [pc |-> "dcUpdate"])
     \/ /\ ChatStep(d, "dcDestroy",
                    [pc |-> "thrown", error |-> DeleteChatFailed(DbMsg)])
        /\ UNCHANGED messages
  /\ UNCHANGED <<chats, splitVars, ingestVars, deleteVars, searchVars, authVars>>

\* await chat.update({ status: 'deleted' }), then return true
DC_MarkDeleted(d) ==
  /\ call[d].pc = "dcUpdate"
  /\ \/ /\ chats' = [chats EXCEPT ![call[d].chatId].status = "deleted"]
        /\ ChatStep(d, "dcUpdate", [pc |-> "returned", result |-> <<TRUE>>])
     \/ /\ ChatStep(d, "dcUpdate",
                    [pc |-> "thrown", error |-> DeleteChatFailed(DbMsg)])
        /\ UNCHANGED chats
  /\ UNCHANGED <<messages, splitVars, ingestVars, deleteVars, searchVars, authVars>>

\* one step of the processQuery call of request p, overlapping with others
ProcessQueryStep(p) ==
  \/ PQ_Call(p, TRUE)
  \/ PQ_FindChat(p)
  \/ PQ_History(p)
  \/ PQ_Generate(p)
  \/ PQ_SaveUser(p)
  \/ PQ_SaveAssistant(p)
  \/ PQ_UpdateChat(p)

\* one step of the deleteChat call of request d
DeleteChatStep(d) ==
  \/ DC_Call(d)
  \/ DC_Find(d)
  \/ DC_DestroyMessages(d)
  \/ DC_MarkDeleted(d)

ConcurrentChatInit ==
  /\ chats = ("c1" :> ChatRow("c1", "u1", "active", 0, 0))
               @@ ("c2" :> ChatRow("c2", "u2", "active", 0, 0))
               @@ ("c3" :> ChatRow("c3", "u1", "deleted", 2, 5))
  /\ messages = <<>>
  /\ call = [p \in Procs \cup ChatDeleters |-> IdleCall]
  /\ IngestIdle
  /\ DeleteIdle
  /\ SearchIdle
  /\ AuthIdle
  /\ text = <<>>
  /\ totalPages = 0
  /\ pages = <<>>
  /\ splitDone = FALSE

ConcurrentChatNext ==
  \/ \E p \in Procs : ProcessQueryStep(p)
  \/ \E d \in ChatDeleters : DeleteChatStep(d)

SpecChatConcurrent == ConcurrentChatInit /\ [][ConcurrentChatNext]_vars

\* the processQuery requests that have returned for chat id
ReturnedOn(id) == {p \in Procs : call[p].chatId = id /\ call[p].pc = "returned"}

\* every processQuery request that named chat id has returned, and no
\* deleteChat request has named it
Settled(id) ==
  /\ \A p \in Procs : call[p].chatId = id => call[p].pc = "returned"
  /\ \A d \in ChatDeleters : call[d].chatId # id

\* user row, then the assistant row of the same request, pair after pair
InPairs(ms) ==
  /\ Len(ms) % 2 = 0
  /\ \A k \in 1..Len(ms) :
       k % 2 = 1 => /\ ms[k].role = "user"
                    /\ ms[k + 1].role = "assistant"
                    /\ ms[k + 1].by = ms[k].by

\* C18: the messages of a chat, read in creation order, are a sequence of
\* pairs, each user message directly followed by the assistant message of
\* the same query, also after processQuery calls that overlapped on the chat.
MessagesInPairs ==
  \A id \in DOMAIN chats : Settled(id) => InPairs(MessagesOf(messages, id))

RECURSIVE TokensReported(_)
\* the sum of the token totals the completion gateway reported to requests S
TokensReported(S) ==
  IF S = {} THEN 0
  ELSE LET p == CHOOSE x \in S : TRUE
       IN  call[p].llmResponse[1].total + TokensReported(S \ {p})

\* C19: after n processQuery calls have returned for a chat, sequentially or
\* overlapping, metadata.totalMessages is 2n, the number of its message rows,
\* and metadata.totalTokensUsed is the sum of the reported token totals.
MetadataCountsEveryQuery ==
  \A id \in DOMAIN chats :
    (Settled(id) /\ chats[id].status = "active") =>
      /\ chats[id].metadata.totalMessages = 2 * Cardinality(ReturnedOn(id))
      /\ chats[id].metadata.totalMessages = Len(MessagesOf(messages, id))
      /\ chats[id].metadata.totalTokensUsed = TokensReported(ReturnedOn(id))

\* C20: a chat whose status is deleted has no ChatMessage rows.
DeletedChatHasNoMessages ==
  \A id \in DOMAIN chats :
    chats[id].status = "deleted" => MessagesOf(messages, id) = <<>>

(***************************************************************************)
(* Chat operations one at a time: getChats, getChatById, updateChat next   *)
(* to processQuery and deleteChat.  A request starts when no other is in   *)
(* flight.                                                                 *)
(***************************************************************************)
GetChatsFailed(msg) == <<"Failed to get chats: ">> \o msg
GetChatFailed(msg) == <<"Failed to get chat: ">> \o msg
UpdateChatFailed(msg) == <<"Failed to update chat: ">> \o msg
ChatNotFoundMsg == <<"Chat not found">>

\* the updates the controller builds: a field is present or absent
Updates == [title : {<<>>, <<"renamed">>}, description : {<<>>, <<"about">>}]

\* the locals of a chat service call
IdleRequest ==
  [pc |-> "idle", chatId |-> "", userId |-> "", query |-> "", chat |-> <<>>,
   chatHistory |-> <<>>, llmResponse |-> <<>>, error |-> <<>>, result |-> <<>>,
   log |-> <<>>, updates |-> [title |-> <<>>, description |-> <<>>],
   title |-> <<>>, created |-> <<>>]

\* no chat service call is between its first and its last step
Serial == \A q \in DOMAIN call : ~InFlight(q)

\* ActiveChatsOf without the status condition
ActiveChatsOf_AnyStatus(user) ==
  {id \in DOMAIN chats : chats[id].userId = user}

\* Chat.findAll({ where: { userId, status: 'active' } })
ActiveChatsOf(user) ==
  {id \in DOMAIN chats : chats[id].userId = user /\ chats[id].status = "active"}

\* the response built for each chat listed: the row, the count of its
\* messages and the role of its last message (the content preview is left out)
ChatResponses(ids) ==
  [id \in ids |->
     [chat |-> chats[id],
      messageCount |-> Len(MessagesOf(messages, id)),
      lastMessage |->
        IF MessagesOf(messages, id) = <<>> THEN <<>>
        ELSE <<MessagesOf(messages, id)[Len(MessagesOf(messages, id))].role>>]]

\* getChats(userId) is called
GC_Call(p) ==
  /\ call[p].pc = "idle"
  /\ Serial
  /\ \E user \in Users : ChatStep(p, "call", [pc |-> "gcList", userId |-> user])
  /\ UNCHANGED <<chats, messages, splitVars, ingestVars, deleteVars, searchVars, authVars>>

\* await Chat.findAll(...), then per chat ChatMessage.count and findOne: no
\* other request runs in between, so the reads are one step
GC_List(p) ==
  /\ call[p].pc = "gcList"
  /\ \/ ChatStep(p, "gcList",
                 [pc |-> "returned",
                  result |-> <<ChatResponses(ActiveChatsOf(call[p].userId))>>])
     \/ ChatStep(p, "gcList", [pc |-> "thrown", error |-> GetChatsFailed(DbMsg)])
  /\ UNCHANGED <<chats, messages, splitVars, ingestVars, deleteVars, searchVars, authVars>>

\* getChatById(chatId, userId) is called
GB_Call(p) ==
  /\ call[p].pc = "idle"
  /\ Serial
  /\ \E id \in ChatIds, user \in Users :
       ChatStep(p, "call", [pc |-> "gbFind", chatId |-> id, userId |-> user])
  /\ UNCHANGED <<chats, messages, splitVars, ingestVars, deleteVars, searchVars, authVars>>

\* await Chat.findOne(...), throw 'Chat not found' when there is none
GB_Find(p) ==
  /\ call[p].pc = "gbFind"
  /\ LET found == FindActiveChat(call[p].chatId, call[p].userId)
     IN  \/ /\ found = <<>>
            /\ ChatStep(p, "gbFind",
                        [pc |-> "thrown", error |-> GetChatFailed(ChatNotFoundMsg)])
         \/ /\ found # <<>>
            /\ ChatStep(p, "gbFind", [pc |-> "gbMessages", chat |-> found])
  /\ UNCHANGED <<chats, messages, splitVars, ingestVars, deleteVars, searchVars, authVars>>

\* await ChatMessage.findAll({ where: { chatId }, order: createdAt ASC })
GB_Messages(p) ==
  /\ call[p].pc = "gbMessages"
  /\ \/ ChatStep(p, "gbMessages",
                 [pc |-> "returned",
                  result |-> <<[chat |-> call[p].chat[1],
                                messages |-> MessagesOf(messages, call[p].chatId)]>>])
     \/ ChatStep(p, "gbMessages", [pc |-> "thrown", error |-> GetChatFailed(DbMsg)])
  /\ UNCHANGED <<chats, messages, splitVars, ingestVars, deleteVars, searchVars, authVars>>

\* updateChat(chatId, userId, updates) is called
UC_Call(p) ==
  /\ call[p].pc = "idle"
  /\ Serial
  /\ \E id \in ChatIds, user \in Users, updates \in Updates :
       ChatStep(p, "call", [pc |-> "ucFind", chatId |-> id, userId |-> user,
                            updates |-> updates])
  /\ UNCHANGED <<chats, messages, splitVars, ingestVars, deleteVars, searchVars, authVars>>

\* await Chat.findOne(...), return null when there is none
UC_Find(p) ==
  /\ call[p].pc = "ucFind"
  /\ LET found == FindActiveChat(call[p].chatId, call[p].userId)
     IN  \/ /\ found = <<>>
            /\ ChatStep(p, "ucFind", [pc |-> "returned", result |-> <<>>])
         \/ /\ found # <<>>
            /\ ChatStep(p, "ucFind", [pc |-> "ucUpdate", chat |-> found])
  /\ UNCHANGED <<chats, messages, splitVars, ingestVars, deleteVars, searchVars, authVars>>

\* ApplyUpdates that writes null for a field the update does not carry
ApplyUpdates_Overwrite(row, updates) ==
  [row EXCEPT !.title = IF updates.title = <<>> THEN "" ELSE updates.title[1],
              !.description = IF updates.description = <<>> THEN ""
                              ELSE updates.description[1]]

\* chat.update(updates): the fields the update carries are written
ApplyUpdates(row, updates) ==
  [row EXCEPT !.title = IF updates.title = <<>> THEN @ ELSE updates.title[1],
              !.description = IF updates.description = <<>> THEN @
                              ELSE updates.description[1]]

\* await chat.update(updates), then the response from the instance
UC_Update(p) ==
  /\ call[p].pc = "ucUpdate"
  /\ \/ /\ chats' = [chats EXCEPT ![call[p].chatId] =
                       ApplyUpdates(@, call[p].updates)]
        /\ ChatStep(p, "ucUpdate",
                    [pc |-> "returned",
                     result |-> <<ApplyUpdates(call[p].chat[1], call[p].updates)>>])
     \/ /\ ChatStep(p, "ucUpdate",
                    [pc |-> "thrown", error |-> UpdateChatFailed(DbMsg)])
        /\ UNCHANGED chats
  /\ UNCHANGED <<messages, splitVars, ingestVars, deleteVars, searchVars, authVars>>

\* u1's chat c1 holds a first exchange; c2 is u2's; c3 of u1 was deleted
OpsInit ==
  /\ chats = ("c1" :> [ChatRow("c1", "u1", "active", 2, 5)
                         EXCEPT !.description = "first"])
               @@ ("c2" :> ChatRow("c2", "u2", "active", 0, 0))
               @@ ("c3" :> ChatRow("c3", "u1", "deleted", 2, 5))
  /\ messages = SeededMessages(2, FALSE)
  /\ call = [p \in Procs |-> IdleRequest]
  /\ IngestIdle
  /\ DeleteIdle
  /\ SearchIdle
  /\ AuthIdle
  /\ text = <<>>
  /\ totalPages = 0
  /\ pages = <<>>
  /\ splitDone = FALSE

OpsNext ==
  \E p \in Procs :
    \/ Serial /\ PQ_Call(p, FALSE)
    \/ PQ_FindChat(p)
    \/ PQ_History(p)
    \/ PQ_Generate(p)
    \/ PQ_SaveUser(p)
    \/ PQ_SaveAssistant(p)
    \/ PQ_UpdateChat(p)
    \/ Serial /\ DC_Call(p)
    \/ DC_Find(p)
    \/ DC_DestroyMessages(p)
    \/ DC_MarkDeleted(p)
    \/ GC_Call(p)
    \/ GC_List(p)
    \/ GB_Call(p)
    \/ GB_Find(p)
    \/ GB_Messages(p)
    \/ UC_Call(p)
    \/ UC_Find(p)
    \/ UC_Update(p)

SpecChatOps == OpsInit /\ [][OpsNext]_vars

(***************************************************************************)
(* Chat operations: properties                                             *)
(***************************************************************************)
\* chat c exists, is user u's and is active
OwnActive(c, u) ==
  c \in DOMAIN chats /\ chats[c].userId = u /\ chats[c].status = "active"

\* C21: a chat service call by user u changes only a chat that is u's and
\* active and only that chat's messages; on a chat that is another user's,
\* deleted or absent, processQuery and getChatById fail with not-found,
\* updateChat returns null, deleteChat returns false and nothing changes;
\* getChats lists exactly u's active chats and getChatById reads only its
\* chat's messages.  A deleted chat stays deleted and no chat is archived.
OwnActiveChatsOnly ==
  [][\A p \in Procs :
       call'[p] # call[p] =>
         LET c == call'[p].chatId
             u == call'[p].userId
         IN  /\ DOMAIN chats' = DOMAIN chats
             /\ \A id \in DOMAIN chats :
                  /\ chats'[id] # chats[id] => id = c /\ OwnActive(c, u)
                  /\ chats[id].status = "deleted" => chats'[id].status = "deleted"
                  /\ chats'[id].status # "archived"
             /\ \A id \in ChatIds :
                  MessagesOf(messages', id) # MessagesOf(messages, id) =>
                    id = c /\ OwnActive(c, u)
             /\ (call[p].pc \in {"findChat", "dcFind", "gbFind", "ucFind"}
                   /\ ~OwnActive(c, u)) =>
                  /\ chats' = chats
                  /\ messages' = messages
                  /\ call[p].pc = "findChat" =>
                       /\ call'[p].pc = "thrown"
                       /\ call'[p].error = QueryFailed(NotFoundMsg)
                  /\ call[p].pc = "gbFind" =>
                       /\ call'[p].pc = "thrown"
                       /\ call'[p].error = GetChatFailed(ChatNotFoundMsg)
                  /\ call[p].pc = "ucFind" =>
                       /\ call'[p].pc = "returned"
                       /\ call'[p].result = <<>>
                  /\ call[p].pc = "dcFind" =>
                       /\ call'[p].pc = "returned"
                       /\ call'[p].result = <<FALSE>>
             /\ (call[p].pc = "gcList" /\ call'[p].pc = "returned") =>
                  /\ DOMAIN call'[p].result[1] = {id \in DOMAIN chats : OwnActive(id, u)}
                  /\ \A id \in DOMAIN call'[p].result[1] :
                       /\ call'[p].result[1][id].chat = chats[id]
                       /\ call'[p].result[1][id].messageCount
                            = Len(MessagesOf(messages, id))
             /\ (call[p].pc = "gbMessages" /\ call'[p].pc = "returned") =>
                  /\ OwnActive(c, u)
                  /\ call'[p].result[1].chat = chats[c]
                  /\ call'[p].result[1].messages = MessagesOf(messages, c)]_vars

\* step name is in the log of request r
InLog(r, name) == \E k \in 1..Len(r.log) : r.log[k] = name

OwnActiveChatsOnlyWitness ==
  \E p, q \in Procs :
    /\ call[p].pc = "returned"
    /\ InLog(call[p], "dcFind")
    /\ call[p].chatId = "c1"
    /\ call[p].userId = "u1"
    /\ call[p].result = <<TRUE>>
    /\ call[q].pc = "returned"
    /\ InLog(call[q], "ucFind")
    /\ call[q].chatId = "c1"
    /\ call[q].userId = "u1"
    /\ call[q].updates.title # <<>>
    /\ call[q].result = <<>>
    /\ chats["c1"].status = "deleted"
    /\ chats["c1"].title = "title"

MaxWords == 7

CreateChatFailed(msg) == <<"Failed to create chat: ">> \o msg
UserNotFoundMsg == <<"User not found">>
NewChatTitle == <<"N", "e", "w", " ", "C", "h", "a", "t">>

\* a word of n letters
Word(n) == [k \in 1..n |-> "a"]

RECURSIVE Join(_)
\* words.join(' ')
Join(words) ==
  IF words = <<>> THEN <<>>
  ELSE IF Len(words) = 1 THEN words[1]
  ELSE words[1] \o <<" ">> \o Join(Tail(words))

RECURSIVE Split(_)
\* s.split(' ')
Split(s) ==
  LET spaces == {k \in 1..Len(s) : s[k] = " "}
  IN  IF spaces = {} THEN <<s>>
      ELSE LET first == CHOOSE k \in spaces : \A j \in spaces : k <= j
           IN  <<SubSeq(s, 1, first - 1)>> \o Split(SubSeq(s, first + 1, Len(s)))

\* title.length > 50 ? title.substring(0, 47) + '...' : title
CapTitle(title) ==
  IF Len(title) > 50 THEN Substring(title, 0, 47) \o <<".", ".", ".">> ELSE title

\* the title taken from the gateway's answer; 'New Chat' for an empty one
GeneratedTitle(content) ==
  CapTitle(IF content = <<>> THEN NewChatTitle ELSE content)

\* FallbackTitle without the cut
FallbackTitle_Uncut(query) == Join(Slice(Split(query), 6))

\* the catch block of generateChatTitle: the first six words, cut
FallbackTitle(query) == CapTitle(Join(Slice(Split(query), 6)))

\* the queries: up to MaxWords words of 7 or 8 letters, and some with empty
\* words (leading, doubled and trailing spaces, the empty query)
QueryWordLengths ==
  UNION {[1..n -> {7, 8}] : n \in 1..MaxWords}
    \cup {<<0>>, <<0, 8>>, <<8, 0>>, <<8, 0, 8>>, <<0, 0, 0, 0, 0, 0, 8>>}

WordsText(lens) == Join([k \in 1..Len(lens) |-> Word(lens[k])])

QueryTexts == {WordsText(lens) : lens \in QueryWordLengths}

GivenTitles == {<<>>, <<"g", "i", "v", "e", "n">>}     \* chatData.title
GatewayContents == {<<>>, <<"T">>, Word(51)}            \* message.content
CreateUsers == Users \cup {"u0"}                        \* u0 is no user

Creators == {"p1"}               \* requests that call createChat
Listers == {"p2"}                \* requests that call getChats

\* createChat(chatData) is called
CC_Call(p) ==
  /\ call[p].pc = "idle"
  /\ Serial
  /\ \E user \in CreateUsers, query \in QueryTexts, title \in GivenTitles :
       ChatStep(p, "call", [pc |-> "ccUser", userId |-> user, query |-> query,
                            title |-> title])
  /\ UNCHANGED <<chats, messages, splitVars, ingestVars, deleteVars, searchVars, authVars>>

\* await User.findByPk(...), throw 'User not found'; then if (!title)
CC_FindUser(p) ==
  /\ call[p].pc = "ccUser"
  /\ IF call[p].userId \notin Users
     THEN ChatStep(p, "ccUser",
                   [pc |-> "thrown", error |-> CreateChatFailed(UserNotFoundMsg)])
     ELSE ChatStep(p, "ccUser",
                   [pc |-> IF call[p].title = <<>> THEN "ccTitle" ELSE "ccCreate"])
  /\ UNCHANGED <<chats, messages, splitVars, ingestVars, deleteVars, searchVars, authVars>>

\* title = await generateChatTitle(query): the gateway answers, or it fails
\* and the catch block returns the fallback
CC_Title(p) ==
  /\ call[p].pc = "ccTitle"
  /\ \/ \E content \in GatewayContents :
          ChatStep(p, "ccTitle",
                   [pc |-> "ccCreate", title |-> GeneratedTitle(content)])
     \/ ChatStep(p, "ccTitleFallback",
                 [pc |-> "ccCreate", title |-> FallbackTitle(call[p].query)])
  /\ UNCHANGED <<chats, messages, splitVars, ingestVars, deleteVars, searchVars, authVars>>

\* the id the store gives the next chat
FreshChatId == IF "c4" \in DOMAIN chats THEN "c5" ELSE "c4"

\* the row Chat.create inserts
NewChat(id, title, user) ==
  [ChatRow(id, user, "active", 0, 0) EXCEPT !.title = title]

\* await Chat.create(...), then processQuery is called with the chat's id
CC_Create(p) ==
  /\ call[p].pc = "ccCreate"
  /\ \/ /\ chats' = chats @@ (FreshChatId :>
                               NewChat(FreshChatId, call[p].title, call[p].userId))
        /\ ChatStep(p, "ccCreate",
                    [pc |-> "findChat", chatId |-> FreshChatId,
                     created |-> <<FreshChatId>>])
     \/ /\ ChatStep(p, "ccCreate",
                    [pc |-> "thrown", error |-> CreateChatFailed(DbMsg)])
        /\ UNCHANGED chats
  /\ UNCHANGED <<messages, splitVars, ingestVars, deleteVars, searchVars, authVars>>

\* the catch block of createChat around the error processQuery raised
CC_Catch(p) ==
  /\ call[p].pc = "thrown"
  /\ call[p].created # <<>>
  /\ \A k \in 1..Len(call[p].log) : call[p].log[k] # "ccCatch"
  /\ ChatStep(p, "ccCatch", [error |-> CreateChatFailed(call[p].error)])
  /\ UNCHANGED <<chats, messages, splitVars, ingestVars, deleteVars, searchVars, authVars>>

CreateInit ==
  /\ chats = ("c1" :> ChatRow("c1", "u1", "active", 0, 0))
               @@ ("c2" :> ChatRow("c2", "u2", "active", 0, 0))
               @@ ("c3" :> ChatRow("c3", "u1", "deleted", 2, 5))
  /\ messages = <<>>
  /\ call = [p \in Procs |-> IdleRequest]
  /\ IngestIdle
  /\ DeleteIdle
  /\ SearchIdle
  /\ AuthIdle
  /\ text = <<>>
  /\ totalPages = 0
  /\ pages = <<>>
  /\ splitDone = FALSE

CreateNext ==
  \/ \E p \in Creators :
       \/ CC_Call(p)
       \/ CC_FindUser(p)
       \/ CC_Title(p)
       \/ CC_Create(p)
       \/ PQ_FindChat(p)
       \/ PQ_History(p)
       \/ PQ_Generate(p)
       \/ PQ_SaveUser(p)
       \/ PQ_SaveAssistant(p)
       \/ PQ_UpdateChat(p)
       \/ CC_Catch(p)
  \/ \E p \in Listers :
       \/ GC_Call(p)
       \/ GC_List(p)

SpecCreate == CreateInit /\ [][CreateNext]_vars

(***************************************************************************)
(* createChat: properties                                                  *)
(***************************************************************************)
\* C22: the title step of createChat never throws and yields a title of at
\* most 50 characters; when the gateway call for the title fails the title is
\* the first six space-separated words of the query, cut to 47 characters
\* plus '...' when longer than 50; the chat is then created active with
\* zeroed usage metadata and that title.
TitleFailureNeverAborts ==
  [][\A p \in Creators :
       /\ (call[p].pc = "ccTitle" /\ call'[p] # call[p]) =>
            /\ call'[p].pc = "ccCreate"
            /\ Len(call'[p].title) <= 50
            /\ chats' = chats
            /\ InLog(call'[p], "ccTitleFallback") =>
                 \E lens \in QueryWordLengths :
                   LET six == WordsText(SubSeq(lens, 1, Min(6, Len(lens))))
                   IN  /\ call[p].query = WordsText(lens)
                       /\ call'[p].title =
                            IF Len(six) > 50
                            THEN SubSeq(six, 1, 47) \o <<".", ".", ".">>
                            ELSE six
       /\ (call[p].pc = "ccCreate" /\ call'[p].pc # "thrown"
             /\ call'[p] # call[p]) =>
            \E id \in DOMAIN chats' \ DOMAIN chats :
              /\ DOMAIN chats' = DOMAIN chats \cup {id}
              /\ \A other \in DOMAIN chats : chats'[other] = chats[other]
              /\ chats'[id].status = "active"
              /\ chats'[id].userId = call[p].userId
              /\ chats'[id].title = call[p].title
              /\ chats'[id].metadata = [totalMessages |-> 0, totalTokensUsed |-> 0]
              /\ call'[p].created = <<id>>]_vars

TitleFailureNeverAbortsWitness ==
  \E p \in Creators :
    /\ call[p].pc = "returned"
    /\ InLog(call[p], "ccTitleFallback")
    /\ Len(Split(call[p].query)) = 7
    /\ call[p].created # <<>>
    /\ Len(chats[call[p].created[1]].title) = 50
    /\ chats[call[p].created[1]].title[50] = "."
    /\ chats[call[p].created[1]].title[47] = "a"
    /\ chats[call[p].created[1]].status = "active"

\* createChat of request p created its chat and the delegated processQuery
\* failed
QueryFailedAfterCreate(p) == call[p].pc = "thrown" /\ call[p].created # <<>>

\* C28: after a createChat whose delegated processQuery failed the chat is
\* still there, active with zeroed metadata, and has no message rows.
FailedCreateKeepsNoMessages ==
  \A p \in Creators :
    QueryFailedAfterCreate(p) =>
      /\ call[p].created[1] \in DOMAIN chats
      /\ chats[call[p].created[1]].status = "active"
      /\ chats[call[p].created[1]].metadata
           = [totalMessages |-> 0, totalTokensUsed |-> 0]
      /\ MessagesOf(messages, call[p].created[1]) = <<>>

(***************************************************************************)
(* TokenBlacklistService, AuthService.signOut and AuthService.verifyToken. *)
(* The calls are synchronous: each runs to its end without interleaving.   *)
(***************************************************************************)
MaxTime == 4                     \* the clock runs from 0 to MaxTime ticks
TicksPerSecond == 2              \* ticks in one second of a token's exp claim

Tokens == {"t1", "t2", "bad"}    \* bad carries no valid signature

\* decoded.exp of the signed tokens, in seconds
JwtExp == ("t1" :> 1) @@ ("t2" :> 2)

\* jwt.verify(token, secret) answers: the token is signed and the clock's
\* second lies before its exp
JwtValid(t, clock) == t \in DOMAIN JwtExp /\ clock \div TicksPerSecond < JwtExp[t]

\* new Date(decoded.exp * 1000)
ExpiresAt(t) == JwtExp[t] * TicksPerSecond

\* blacklistedTokens.set(token, expiresAt)
MapSet(map, t, e) == [x \in DOMAIN map \cup {t} |-> IF x = t THEN e ELSE map[x]]

\* blacklistedTokens.delete(token)
MapDelete(map, t) == [x \in DOMAIN map \ {t} |-> map[x]]

\* cleanupExpiredTokens that also deletes at the instant of expiry
cleanupExpiredTokens_AtExpiry(map, clock) ==
  [x \in {t \in DOMAIN map : ~(clock >= map[t])} |-> map[x]]

\* cleanupExpiredTokens(): delete every entry with now > expiresAt
cleanupExpiredTokens(map, clock) ==
  [x \in {t \in DOMAIN map : ~(clock > map[t])} |-> map[x]]

\* what isBlacklisted(token) returns
IsBlacklistedResult(map, t, clock) == t \in DOMAIN map /\ ~(clock > map[t])

\* the map isBlacklisted(token) leaves: an expired entry is deleted
IsBlacklistedMap(map, t, clock) ==
  IF t \in DOMAIN map /\ clock > map[t] THEN MapDelete(map, t) ELSE map

IdleAuth ==
  [op |-> "", token |-> "", blacklisted |-> FALSE, size |-> 0,
   outcome |-> "", added |-> [t \in Tokens |-> <<>>]]

\* the record of a call: its name, its token and what it returned
Called(op, t, changes) ==
  [f \in DOMAIN auth |->
     IF f = "op" THEN op
     ELSE IF f = "token" THEN t
     ELSE IF f \in DOMAIN changes THEN changes[f]
     ELSE IF f = "added" THEN auth.added
     ELSE IdleAuth[f]]

\* the latest add of each token, after token t is added with expiry e
AddedWith(t, e, by) ==
  [auth.added EXCEPT ![t] = <<[expiresAt |-> e, by |-> by]>>]

AuthInit ==
  /\ blacklistedTokens = [t \in {} |-> 0]
  /\ now = 0
  /\ auth = IdleAuth
  /\ IngestIdle
  /\ ChatIdle
  /\ DeleteIdle
  /\ SearchIdle
  /\ text = <<>>
  /\ totalPages = 0
  /\ pages = <<>>
  /\ splitDone = FALSE

\* time passes
Tick ==
  /\ now < MaxTime
  /\ now' = now + 1
  /\ UNCHANGED <<blacklistedTokens, auth, splitVars, ingestVars, chatVars,
                 deleteVars, searchVars>>

\* TokenBlacklistService.addToBlacklist(token, expiresAt)
TB_AddToBlacklist(t, e) ==
  /\ blacklistedTokens' = cleanupExpiredTokens(MapSet(blacklistedTokens, t, e), now)
  /\ auth' = Called("addToBlacklist", t, [added |-> AddedWith(t, e, "caller")])
  /\ UNCHANGED <<now, splitVars, ingestVars, chatVars, deleteVars, searchVars>>

\* TokenBlacklistService.isBlacklisted(token)
TB_IsBlacklisted(t) ==
  /\ blacklistedTokens' = IsBlacklistedMap(blacklistedTokens, t, now)
  /\ auth' = Called("isBlacklisted", t,
                    [blacklisted |-> IsBlacklistedResult(blacklistedTokens, t, now)])
  /\ UNCHANGED <<now, splitVars, ingestVars, chatVars, deleteVars, searchVars>>

\* TokenBlacklistService.getBlacklistSize()
TB_GetBlacklistSize ==
  /\ blacklistedTokens' = cleanupExpiredTokens(blacklistedTokens, now)
  /\ auth' = Called("getBlacklistSize", "",
                    [size |-> Cardinality(DOMAIN cleanupExpiredTokens(
                                                   blacklistedTokens, now))])
  /\ UNCHANGED <<now, splitVars, ingestVars, chatVars, deleteVars, searchVars>>

\* AuthService.signOut({ userId, token }): the user must exist; a token that
\* verifies is added with its own expiry, any other is passed over
AS_SignOut(t, user) ==
  /\ IF user \notin Users
     THEN /\ auth' = Called("signOut", t, [outcome |-> "User not found"])
          /\ UNCHANGED blacklistedTokens
     ELSE IF JwtValid(t, now)
     THEN /\ blacklistedTokens' =
               cleanupExpiredTokens(MapSet(blacklistedTokens, t, ExpiresAt(t)), now)
          /\ auth' = Called("signOut", t,
                            [outcome |-> "signed out",
                             added |-> AddedWith(t, ExpiresAt(t), "signOut")])
     ELSE /\ auth' = Called("signOut", t, [outcome |-> "signed out"])
          /\ UNCHANGED blacklistedTokens
  /\ UNCHANGED <<now, splitVars, ingestVars, chatVars, deleteVars, searchVars>>

\* AuthService.verifyToken(token): rejected when blacklisted, else as
\* jwt.verify decides
AS_VerifyToken(t) ==
  /\ blacklistedTokens' = IsBlacklistedMap(blacklistedTokens, t, now)
  /\ auth' = Called("verifyToken", t,
                    [blacklisted |-> IsBlacklistedResult(blacklistedTokens, t, now),
                     outcome |->
                       IF IsBlacklistedResult(blacklistedTokens, t, now)
                       THEN "Invalid or expired token"
                       ELSE IF JwtValid(t, now) THEN "decoded"
                       ELSE "Invalid or expired token"])
  /\ UNCHANGED <<now, splitVars, ingestVars, chatVars, deleteVars, searchVars>>

AuthNext ==
  \/ Tick
  \/ \E t \in Tokens, e \in 0..MaxTime : TB_AddToBlacklist(t, e)
  \/ \E t \in Tokens : TB_IsBlacklisted(t)
  \/ TB_GetBlacklistSize
  \/ \E t \in Tokens, user \in {"u1", "u0"} : AS_SignOut(t, user)
  \/ \E t \in Tokens : AS_VerifyToken(t)

SpecAuth == AuthInit /\ [][AuthNext]_vars

\* token t was added and the expiry of its latest add has not passed
Unexpired(added, t, clock) ==
  added[t] # <<>> /\ clock <= added[t][1].expiresAt

\* C30: isBlacklisted(t) returns true exactly when the latest add of t carries
\* an expiry that has not passed; no call removes a token whose latest expiry
\* has not passed; getBlacklistSize counts these tokens; and verifyToken
\* rejects a token at every time up to the expiry signOut added it with.
BlacklistedUntilExpiry ==
  [][/\ \A t \in Tokens :
          Unexpired(auth'.added, t, now') =>
            /\ t \in DOMAIN blacklistedTokens'
            /\ blacklistedTokens'[t] = auth'.added[t][1].expiresAt
     /\ (auth'.op = "isBlacklisted" /\ now' = now) =>
          auth'.blacklisted = Unexpired(auth.added, auth'.token, now)
     /\ (auth'.op = "getBlacklistSize" /\ now' = now) =>
          auth'.size = Cardinality({t \in Tokens : Unexpired(auth.added, t, now)})
     /\ (auth'.op = "verifyToken" /\ now' = now) =>
          /\ Unexpired(auth.added, auth'.token, now) =>
               auth'.outcome = "Invalid or expired token"
          /\ auth'.outcome = "decoded" => JwtValid(auth'.token, now)
     /\ (auth'.op = "signOut" /\ now' = now /\ auth'.outcome = "signed out"
           /\ JwtValid(auth'.token, now)) =>
          /\ auth'.added[auth'.token]
               = <<[expiresAt |-> JwtExp[auth'.token] * TicksPerSecond,
                    by |-> "signOut"]>>
          /\ \A clock \in now..(JwtExp[auth'.token] * TicksPerSecond) :
               Unexpired(auth'.added, auth'.token, clock)]_vars

BlacklistedUntilExpiryWitness ==
  /\ auth.op = "verifyToken"
  /\ auth.token = "t2"
  /\ now = 3
  /\ JwtValid("t2", now)
  /\ auth.added["t2"] = <<[expiresAt |-> 4, by |-> "signOut"]>>
  /\ auth.outcome = "Invalid or expired token"
  /\ auth.added["t1"] # <<>>
  /\ "t1" \notin DOMAIN blacklistedTokens

====
